---- MODULE Spec2Model ----
(***************************************************************************)
(* Wealth-compass: the finance data hook (useFinanceData), the settings    *)
(* provider (currency conversion), the auth provider (allowlist), the      *)
(* crypto batch price cache and the price refresh handlers.                *)
(*                                                                         *)
(* Amounts are integers (minor units).  Exchange rates are integers in     *)
(* units of 1/RateDen, so value / rate is (value * RateDen) \div rate.     *)
(***************************************************************************)
EXTENDS Integers, Sequences, FiniteSets, Bags, TLC

(***************************************************************************)
(* Bounds                                                                  *)
(***************************************************************************)
\* number of operations the user performs during a run
MaxOps == 2
\* number of fetchData calls that may be in flight (sent or served) at once
MaxFetch == 2
\* largest value of the wall clock, in minutes
MaxClock == 5

(***************************************************************************)
(* Program constants                                                       *)
(***************************************************************************)
NoUser == "null"
Null == "null"
RateDen == 2

VARIABLES
  \* ---- useFinanceData -------------------------------------------------
  user,         \* useAuth().user as seen by the hooks: NoUser or an email
  data,         \* useState<FinancialData>: the in-memory collections
  localData,    \* localStorage['finance_dashboard_data']: <<>> when absent,
                \*   else <<the JSON document>>
  isLoaded,     \* useState(false)
  db,           \* the backend tables, each a sequence of rows
  nextId,       \* next primary key the backend hands out
  fetchSent,    \* fetchData calls whose selects the backend has not served:
                \*   [failed |-> BOOLEAN] -> how many (failed: issued by a write
                \*   whose backend call returned an error)
  fetchServed,  \* fetchData calls whose select results are on their way back
  feePending,   \* addInvestment / addCrypto calls between the asset insert
                \*   and the 'Trading Fees' insert
  clock,        \* Date.now()
  opCount,      \* operations the user has performed so far
  \* ---- SettingsProvider -----------------------------------------------
  legacy,       \* TRUE: the provider variant that keeps a manual exchangeRate
  currency,     \* useState<Currency>('EUR')
  currencyRates,\* useState<Record<string, number> | null>(null)
  exchangeRate, \* useState<number>(1), in units of 1/RateDen (legacy variant)
  ratesInFlight,\* fetchExchangeRates(base) requests not yet answered:
                \*   base currency -> how many
  conv,         \* the latest convertCurrency call: arguments and result
  \* ---- AuthProvider and the auth backend -------------------------------
  session,      \* useState<Session | null>(null): NoUser or the session's email
  loading,      \* useState(true)
  stored,       \* the session the supabase client holds: NoUser or an email
  getSessionPending, \* supabase.auth.getSession() has not resolved yet
  authEvents,   \* auth-state changes not yet handed to the subscriber: the
                \*   sessions they carry, oldest first
  signingOut,   \* subscriber runs waiting on `await supabase.auth.signOut()`
  warned,       \* console.warn('Access Restricted: Unauthorized Email') ran
  authUsers,    \* emails of the rows of auth.users
  trigger,      \* the script that last defined check_email_whitelist
  signInCalls,  \* emails handed to supabase.auth.signInWithPassword
  signInResult, \* what the latest signInWithEmail returned: <<>> or <<r>>
  \* ---- the crypto batch price cache ------------------------------------
  cache,        \* localStorage['wealth_compass_crypto_cache']: <<>> when
                \*   absent, else <<[timestamp, prices]>>
  cacheWrittenAt, \* Date.now() when the cache entry was last written, -1 if never
  batchCalls,   \* the bag of batch price calls waiting for the response of the API
  batchOut,     \* what the latest batch price call returned: <<>> or <<r>>
  \* ---- the price refresh handlers --------------------------------------
  refresh,      \* per handler: whether it runs (isRefreshing / isUpdating),
                \*   how often it was started, the holdings of its closure,
                \*   the lookups it waits for and the results it has received
  lastUpdate,   \* per holding id: the latest updateCrypto / updateInvestment
                \*   call made for it, <<>> if none
  \* ---- lib/api.ts: getStockPrice ---------------------------------------
  finnhubKey,   \* what getFinnhubKey() returns: Null or a string
  quote,        \* the getStockPrice call: its symbol, where it stands, the
                \*   requests it has made with their replies, what it returned
  \* ---- the calculators -------------------------------------------------
  compound,     \* CompoundInterestCalculator: its inputs and the memoised data
  fire,         \* FIRECalculator: its inputs and the memoised projection
  monte         \* MonteCarloSimulation: its inputs, the simulated paths and
                \*   the memoised chartData

finVars == <<user, data, localData, isLoaded, db, nextId, fetchSent, fetchServed,
             feePending, clock, opCount>>

setVars == <<legacy, currency, currencyRates, exchangeRate, ratesInFlight, conv>>

authVars == <<session, loading, stored, getSessionPending, authEvents, signingOut,
              warned, authUsers, trigger, signInCalls, signInResult>>

cacheVars == <<cache, cacheWrittenAt, batchCalls, batchOut>>

\* the finance hook's collections, backend tables and requests
dataVars == <<data, localData, isLoaded, db, nextId, fetchSent, fetchServed, feePending>>

\* the finance hook's state without the user and the clock
hookVars == <<dataVars, opCount>>

refVars == <<refresh, lastUpdate>>

toolVars == <<finnhubKey, quote>>

calcVars == <<compound, fire, monte>>

\* everything but the finance hook's state
exFin == <<setVars, authVars, cacheVars, refVars, toolVars, calcVars>>

\* everything but the settings provider's state
exSet == <<finVars, authVars, cacheVars, refVars, toolVars, calcVars>>

\* everything but the auth provider's state and the user
exAuth == <<hookVars, clock, setVars, cacheVars, refVars, toolVars, calcVars>>

\* everything but the price cache, the clock and the operation count
exCache == <<user, dataVars, setVars, authVars, refVars, toolVars, calcVars>>

\* what a refresh handler leaves alone whatever it does
exRef == <<user, isLoaded, db, nextId, fetchSent, fetchServed, feePending,
           setVars, authVars, toolVars, calcVars>>

\* everything but the price lookup and the operation count
exTool == <<user, dataVars, clock, setVars, authVars, cacheVars, refVars, calcVars>>

\* everything but the calculators
exCalc == <<finVars, setVars, authVars, cacheVars, refVars, toolVars>>

vars == <<finVars, setVars, authVars, cacheVars, refVars, toolVars, calcVars>>

(***************************************************************************)
(* Sequence helpers (Array.prototype.map / filter / reduce / sort)         *)
(***************************************************************************)
RECURSIVE SumSeq(_)
SumSeq(s) == IF s = <<>> THEN 0 ELSE Head(s) + SumSeq(Tail(s))

Range(s) == {s[i] : i \in 1..Len(s)}

\* Array.prototype.sort is stable.  Both sorts of fetchData compare the
\* date field: transactions newest first, snapshots oldest first.
DateBefore(x, y, desc) == IF desc THEN x.date > y.date ELSE x.date < y.date

RECURSIVE InsertByDate(_, _, _)
InsertByDate(x, s, desc) ==
  IF s = <<>> THEN <<x>>
  ELSE IF ~DateBefore(Head(s), x, desc) THEN <<x>> \o s
       ELSE <<Head(s)>> \o InsertByDate(x, Tail(s), desc)

RECURSIVE SortByDate(_, _)
SortByDate(s, desc) ==
  IF s = <<>> THEN <<>>
  ELSE InsertByDate(Head(s), SortByDate(Tail(s), desc), desc)

MapSeq(s, F(_)) == [i \in 1..Len(s) |-> F(s[i])]

RemoveId(s, id) == SelectSeq(s, LAMBDA r : r.id # id)

HasId(s, id) == \E i \in 1..Len(s) : s[i].id = id

(***************************************************************************)
(* useFinanceData: initial data and the mapping of fetchData               *)
(***************************************************************************)
getInitialData ==
  [transactions |-> <<>>, investments |-> <<>>, crypto |-> <<>>,
   liabilities |-> <<>>, liquidity |-> <<>>, snapshots |-> <<>>]

EmptyDb ==
  [transactions |-> <<>>, assets |-> <<>>, liabilities |-> <<>>,
   liquidity_accounts |-> <<>>, portfolio_snapshots |-> <<>>]

MapTransaction(t) ==
  [id |-> t.id, type |-> t.type, category |-> t.category,
   amount |-> t.amount, date |-> t.date]

MapInvestment(a) ==
  [id |-> a.id, type |-> a.type, symbol |-> a.symbol, quantity |-> a.quantity,
   costBasis |-> a.avg_buy_price * a.quantity, currentValue |-> 0,
   currency |-> a.trading_currency, fees |-> a.fees, updatedAt |-> a.updated_at]

MapCrypto(a) ==
  [id |-> a.id, symbol |-> a.symbol, name |-> a.name, quantity |-> a.quantity,
   avgBuyPrice |-> a.avg_buy_price, currentPrice |-> 0, currency |-> "USD",
   fees |-> a.fees, updatedAt |-> a.updated_at]

MapLiability(l) ==
  [id |-> l.id, name |-> l.name, currentBalance |-> l.current_balance,
   currency |-> l.currency]

MapLiquidity(l) ==
  [id |-> l.id, name |-> l.name, balance |-> l.balance, currency |-> l.currency]

MapSnapshot(s) ==
  [id |-> s.id, date |-> s.date, netWorth |-> s.net_worth,
   totalAssets |-> s.total_assets, totalLiabilities |-> s.total_liabilities,
   liquidity |-> s.liquidity, investments |-> s.investments, crypto |-> s.crypto]

\* Numbers are integers; three values outside the range of every amount
\* stand for the numbers NaN and Infinity and for the JSON value null.
NaN == -1000001
Infinity == 1000001
JsonNull == -1000000

\* JSON.stringify writes null for a number that is not finite
JsonNumber(v) == IF v \in {NaN, Infinity} THEN JsonNull ELSE v

\* JSON.stringify(data): the JSON document.  The one number of the data
\* that can be other than finite is the avgBuyPrice of a crypto holding,
\* the quotient that the crypto form computes.
Stringify(d) ==
  [d EXCEPT !.crypto =
     LET crypto == d.crypto IN
       [i \in 1..Len(crypto) |->
          [crypto[i] EXCEPT !.avgBuyPrice = JsonNumber(crypto[i].avgBuyPrice)]]]

\* a stored value that is not JSON
NotJson == [invalid |-> TRUE]

\* JSON.parse(stored): a null of the document stays null
Parse(doc) == doc

\* the persistence effect, run after the render that follows a setData
\* which leaves isLoaded as it is:
\*   if (isLoaded) localStorage.setItem(STORAGE_KEY, JSON.stringify(data))
Persist ==
  localData' = IF isLoaded THEN <<Stringify(data')>> ELSE localData

\* the persistence effect after setData and setIsLoaded(true)
PersistLoaded == localData' = <<Stringify(data')>>

\* the argument of setData in fetchData: every collection is replaced by
\* the mapped rows of the response
FetchedData(rows) ==
  [transactions |-> SortByDate(MapSeq(rows.transactions, MapTransaction), TRUE),
   investments  |-> MapSeq(SelectSeq(rows.assets, LAMBDA a : a.category = "investment"),
                           MapInvestment),
   crypto       |-> MapSeq(SelectSeq(rows.assets, LAMBDA a : a.category = "crypto"),
                           MapCrypto),
   liabilities  |-> MapSeq(rows.liabilities, MapLiability),
   liquidity    |-> MapSeq(rows.liquidity_accounts, MapLiquidity),
   snapshots    |-> SortByDate(MapSeq(rows.portfolio_snapshots, MapSnapshot), FALSE)]

(***************************************************************************)
(* SettingsProvider: convertCurrency                                       *)
(***************************************************************************)
Currencies == {"EUR", "USD", "GBP"}

\* a rate table maps every currency name to its rate; 0 stands for a key
\* that is missing or holds 0 (both are falsy in `currencyRates[c]`).
\* The state currencyRates is <<>> for null and <<table>> for a table.
NoRates == [c \in Currencies |-> 0]

NullRates == <<>>

RateOf(rates, c) ==
  IF rates = NullRates \/ c \notin DOMAIN rates[1] THEN 0 ELSE rates[1][c]

\* value / rate
Quotient(value, rate) == (value * RateDen) \div rate

\* the current provider without the no-op fallback
convertCurrencyRatesNoFallback(cur, rates, value, sourceCurrency) ==
  IF sourceCurrency = Null \/ sourceCurrency = cur THEN value
  ELSE IF rates # NullRates /\ RateOf(rates, sourceCurrency) # 0
       THEN Quotient(value, RateOf(rates, sourceCurrency))
       ELSE 0

\* the current provider
convertCurrencyRates(cur, rates, value, sourceCurrency) ==
  IF sourceCurrency = Null \/ sourceCurrency = cur THEN value
  ELSE IF rates # NullRates /\ RateOf(rates, sourceCurrency) # 0
       THEN Quotient(value, RateOf(rates, sourceCurrency))
       ELSE value

\* the provider variant with the manual USD exchange rate
convertCurrencyLegacy(cur, rates, xrate, value, sourceCurrency) ==
  IF sourceCurrency = Null \/ sourceCurrency = cur THEN value
  ELSE IF rates # NullRates /\ RateOf(rates, sourceCurrency) # 0
       THEN Quotient(value, RateOf(rates, sourceCurrency))
       ELSE IF sourceCurrency = "USD" THEN (value * xrate) \div RateDen
            ELSE value

convertCurrency(value, sourceCurrency) ==
  IF legacy
  THEN convertCurrencyLegacy(currency, currencyRates, exchangeRate, value, sourceCurrency)
  ELSE convertCurrencyRates(currency, currencyRates, value, sourceCurrency)

(***************************************************************************)
(* useFinanceData: calculateTotals                                         *)
(***************************************************************************)
\* the conversion functions handed to calculateTotals / takeSnapshot:
\* none (convertFn undefined), the provider's convertCurrency, and a
\* function unrelated to the rates
ConvFns == {"none", "convertCurrency", "other"}

ApplyConvFn(fn, value, cur) ==
  CASE fn = "none" -> value
    [] fn = "convertCurrency" -> convertCurrency(value, cur)
    [] fn = "other" -> IF cur = "USD" THEN 3 * value ELSE value + 1

\* a || b on numbers
OrElse(a, b) == IF a # 0 THEN a ELSE b

\* calculateTotals with the legacy manual accounts (the line commented out
\* in the source) counted into the liquidity
calculateTotalsManual(d, convertFn) ==
  LET convert(v, c) == ApplyConvFn(convertFn, v, c)
      totalIncome == SumSeq(MapSeq(SelectSeq(d.transactions, LAMBDA t : t.type = "income"),
                                   LAMBDA t : convert(t.amount, "EUR")))
      totalExpenses == SumSeq(MapSeq(SelectSeq(d.transactions, LAMBDA t : t.type = "expense"),
                                     LAMBDA t : convert(t.amount, "EUR")))
      cashBalance == totalIncome - totalExpenses
      manualLiquidity == SumSeq(MapSeq(d.liquidity,
                            LAMBDA a : convert(a.balance, a.currency)))
      totalLiquidity == cashBalance + manualLiquidity
      totalInvestments == SumSeq(MapSeq(d.investments,
                            LAMBDA i : convert(OrElse(i.currentValue, i.costBasis), i.currency)))
      totalCrypto == SumSeq(MapSeq(d.crypto,
                            LAMBDA c : convert(c.quantity * c.currentPrice, "USD")))
      totalAssets == totalLiquidity + totalInvestments + totalCrypto
      totalLiabilities == SumSeq(MapSeq(d.liabilities,
                            LAMBDA l : convert(l.currentBalance, l.currency)))
      netWorth == totalAssets - totalLiabilities
  IN [totalLiquidity |-> totalLiquidity, totalInvestments |-> totalInvestments,
      totalCrypto |-> totalCrypto, totalAssets |-> totalAssets,
      totalLiabilities |-> totalLiabilities, netWorth |-> netWorth]

calculateTotals(d, convertFn) ==
  LET convert(v, c) == ApplyConvFn(convertFn, v, c)
      totalIncome == SumSeq(MapSeq(SelectSeq(d.transactions, LAMBDA t : t.type = "income"),
                                   LAMBDA t : convert(t.amount, "EUR")))
      totalExpenses == SumSeq(MapSeq(SelectSeq(d.transactions, LAMBDA t : t.type = "expense"),
                                     LAMBDA t : convert(t.amount, "EUR")))
      cashBalance == totalIncome - totalExpenses
      totalLiquidity == cashBalance
      totalInvestments == SumSeq(MapSeq(d.investments,
                            LAMBDA i : convert(OrElse(i.currentValue, i.costBasis), i.currency)))
      totalCrypto == SumSeq(MapSeq(d.crypto,
                            LAMBDA c : convert(c.quantity * c.currentPrice, "USD")))
      totalAssets == totalLiquidity + totalInvestments + totalCrypto
      totalLiabilities == SumSeq(MapSeq(d.liabilities,
                            LAMBDA l : convert(l.currentBalance, l.currency)))
      netWorth == totalAssets - totalLiabilities
  IN [totalLiquidity |-> totalLiquidity, totalInvestments |-> totalInvestments,
      totalCrypto |-> totalCrypto, totalAssets |-> totalAssets,
      totalLiabilities |-> totalLiabilities, netWorth |-> netWorth]

(***************************************************************************)
(* Inputs of the write operations                                          *)
(***************************************************************************)
TxEntries ==
  {[type |-> "income", category |-> "Salary", amount |-> 3, date |-> 1],
   [type |-> "expense", category |-> "Food", amount |-> 1, date |-> 2]}

InvEntries ==
  {[type |-> "stock", symbol |-> "AAPL", quantity |-> 2, costBasis |-> 4,
    currency |-> "USD", fees |-> 0],
   [type |-> "bond", symbol |-> "BTP", quantity |-> 1, costBasis |-> 3,
    currency |-> "EUR", fees |-> 1]}

CryptoEntries ==
  {[symbol |-> "ETH", name |-> "Ethereum", quantity |-> 1, avgBuyPrice |-> 2, fees |-> 1]}

LiabilityEntries ==
  {[name |-> "Card", currentBalance |-> 1, currency |-> "USD"]}

LiquidityEntries ==
  {[name |-> "Bank", balance |-> 2, currency |-> "EUR"]}

LiabilityUpdates == {[currentBalance |-> 3], [name |-> "Renamed"]}

LiquidityUpdates == {[balance |-> 3], [name |-> "Renamed"]}

Prices == {1, 2}

\* the price the stand-alone price updates of the finance hook use
FinPrices == {2}

FeeValues == {1, 2}

(***************************************************************************)
(* useFinanceData: fetchData                                               *)
(***************************************************************************)
\* one more operation of the user; the dashboard renders its controls only
\* once the initial load has completed
Op == /\ isLoaded
      /\ opCount < MaxOps
      /\ opCount' = opCount + 1

RECURSIVE SumOver(_, _)
SumOver(f, S) ==
  IF S = {} THEN 0
  ELSE LET x == CHOOSE y \in S : TRUE IN f[x] + SumOver(f, S \ {x})

\* fetchData calls in flight, and those that pending continuations will issue
FetchCount == fetchSent[TRUE] + fetchSent[FALSE] + Cardinality(fetchServed)
                + SumOver(feePending, FeeValues)

Room == FetchCount < MaxFetch

\* fetchData() called with a user: the five selects leave
SendFetch(failed) == fetchSent' = [fetchSent EXCEPT ![failed] = @ + 1]

\* the backend answers the selects of one fetchData call
FetchServe(failed) ==
  /\ fetchSent[failed] > 0
  /\ fetchSent' = [fetchSent EXCEPT ![failed] = @ - 1]
  /\ fetchServed' = fetchServed \cup {[rows |-> db, failed |-> failed]}
  /\ UNCHANGED <<opCount, user, data, localData, isLoaded, db, nextId, feePending, clock, exFin>>

\* Promise.all resolves: setData(prev => ({...prev, <mapped rows>})), then
\* finally setIsLoaded(true)
FetchDeliver(f) ==
  /\ f \in fetchServed
  /\ fetchServed' = fetchServed \ {f}
  /\ data' = FetchedData(f.rows)
  /\ isLoaded' = TRUE
  /\ PersistLoaded
  /\ UNCHANGED <<opCount, user, db, nextId, fetchSent, feePending, clock, exFin>>

(***************************************************************************)
(* useFinanceData: the write operations.  `ok` is the outcome of the       *)
(* backend call: TRUE when it returns no error.                            *)
(***************************************************************************)
\* rows the backend holds from earlier sessions
SeededDb ==
  [transactions |-> <<[id |-> 1, type |-> "income", category |-> "Salary",
                       amount |-> 5, date |-> 0]>>,
   assets |-> <<[id |-> 2, category |-> "investment", type |-> "stock",
                 symbol |-> "MSFT", name |-> "MSFT", quantity |-> 1,
                 avg_buy_price |-> 2, trading_currency |-> "USD", fees |-> 0,
                 updated_at |-> 0],
                [id |-> 3, category |-> "crypto", type |-> "crypto",
                 symbol |-> "BTC", name |-> "Bitcoin", quantity |-> 2,
                 avg_buy_price |-> 1, trading_currency |-> "USD", fees |-> 0,
                 updated_at |-> 0]>>,
   liabilities |-> <<[id |-> 4, name |-> "Loan", current_balance |-> 2,
                      currency |-> "EUR"]>>,
   liquidity_accounts |-> <<>>,
   portfolio_snapshots |-> <<>>]

FirstNewId == 5

Insert(table, row) ==
  /\ db' = [db EXCEPT ![table] = Append(@, [id |-> nextId] @@ row)]
  /\ nextId' = nextId + 1

Delete(table, id) ==
  /\ db' = [db EXCEPT ![table] = RemoveId(@, id)]
  /\ UNCHANGED nextId

\* a write with one backend call that checks its error:
\*   if (error) toast.error(...) else fetchData()
Checked(ok, Write) ==
  IF ok THEN /\ Room
             /\ Write
             /\ SendFetch(FALSE)
        ELSE UNCHANGED <<db, nextId, fetchSent>>

\* a write that ignores the result of its backend call:
\*   await supabase...; fetchData()
Unchecked(ok, Write) ==
  /\ Room
  /\ IF ok THEN Write ELSE UNCHANGED <<db, nextId>>
  /\ SendFetch(~ok)

addTransaction(entry, ok) ==
  /\ Op
  /\ user # NoUser
  /\ Checked(ok, Insert("transactions", entry))
  /\ UNCHANGED <<user, data, localData, isLoaded, fetchServed, feePending, clock, exFin>>

deleteTransaction(id, ok) ==
  /\ Op
  /\ user # NoUser
  /\ Checked(ok, Delete("transactions", id))
  /\ UNCHANGED <<user, data, localData, isLoaded, fetchServed, feePending, clock, exFin>>

AssetRow(cat, type, symbol, name, quantity, avgPrice, cur, fees) ==
  [category |-> cat, type |-> type, symbol |-> symbol, name |-> name,
   quantity |-> quantity, avg_buy_price |-> avgPrice, trading_currency |-> cur,
   fees |-> fees, updated_at |-> clock]

\* addInvestment up to its first await and the branch on its result
addInvestment(entry, ok) ==
  /\ Op
  /\ user # NoUser
  /\ LET avgPrice == IF entry.quantity > 0 THEN entry.costBasis \div entry.quantity ELSE 0
         row == AssetRow("investment", entry.type, entry.symbol, entry.symbol,
                         entry.quantity, avgPrice, entry.currency, entry.fees)
     IN IF ~ok
        THEN UNCHANGED <<db, nextId, fetchSent, feePending>>
        ELSE /\ Room
             /\ Insert("assets", row)
             /\ IF entry.fees > 0
                THEN /\ feePending' = [feePending EXCEPT ![entry.fees] = @ + 1]
                     /\ UNCHANGED fetchSent
                ELSE /\ SendFetch(FALSE)
                     /\ UNCHANGED feePending
  /\ UNCHANGED <<user, data, localData, isLoaded, fetchServed, clock, exFin>>

\* the rest of addInvestment / addCrypto when fees > 0: the 'Trading Fees'
\* insert (its result is not looked at), toast.info, fetchData()
logFee(fees, ok) ==
  /\ feePending[fees] > 0
  /\ feePending' = [feePending EXCEPT ![fees] = @ - 1]
  /\ IF ok
     THEN Insert("transactions", [type |-> "expense", category |-> "Trading Fees",
                                  amount |-> fees, date |-> clock])
     ELSE UNCHANGED <<db, nextId>>
  /\ SendFetch(FALSE)
  /\ UNCHANGED <<opCount, user, data, localData, isLoaded, fetchServed, clock, exFin>>

\* {...x, ...updates}
Merge(x, updates) == updates @@ x

\* the update that writes the new values into every row
UpdateIdAll(s, id, updates) ==
  [i \in 1..Len(s) |-> Merge(s[i], updates)]

\* the update that adds the row when no row has the id
UpdateIdUpsert(s, id, updates) ==
  IF \E i \in 1..Len(s) : s[i].id = id
  THEN [i \in 1..Len(s) |-> IF s[i].id = id THEN Merge(s[i], updates) ELSE s[i]]
  ELSE Append(s, [id |-> id] @@ updates)

UpdateId(s, id, updates) ==
  [i \in 1..Len(s) |-> IF s[i].id = id THEN Merge(s[i], updates) ELSE s[i]]

updateInvestment(id, updates) ==
  /\ Op
  /\ user # NoUser
  /\ data' = [data EXCEPT !.investments = UpdateId(@, id, updates)]
  /\ Persist
  /\ UNCHANGED <<user, isLoaded, db, nextId, fetchSent, fetchServed, feePending,
                 clock, exFin>>

deleteInvestment(id, ok) ==
  /\ Op
  /\ user # NoUser
  /\ Unchecked(ok, Delete("assets", id))
  /\ UNCHANGED <<user, data, localData, isLoaded, fetchServed, feePending, clock, exFin>>

addCrypto(entry, ok) ==
  /\ Op
  /\ user # NoUser
  /\ LET row == AssetRow("crypto", "crypto", entry.symbol, entry.name,
                         entry.quantity, entry.avgBuyPrice, "USD", entry.fees)
     IN IF ~ok
        THEN UNCHANGED <<db, nextId, fetchSent, feePending>>
        ELSE /\ Room
             /\ Insert("assets", row)
             /\ IF entry.fees > 0
                THEN /\ feePending' = [feePending EXCEPT ![entry.fees] = @ + 1]
                     /\ UNCHANGED fetchSent
                ELSE /\ SendFetch(FALSE)
                     /\ UNCHANGED feePending
  /\ UNCHANGED <<user, data, localData, isLoaded, fetchServed, clock, exFin>>

updateCrypto(id, updates) ==
  /\ Op
  /\ data' = [data EXCEPT !.crypto = UpdateId(@, id, updates)]
  /\ Persist
  /\ UNCHANGED <<user, isLoaded, db, nextId, fetchSent, fetchServed, feePending,
                 clock, exFin>>

deleteCrypto(id, ok) ==
  /\ Op
  /\ user # NoUser
  /\ Unchecked(ok, Delete("assets", id))
  /\ UNCHANGED <<user, data, localData, isLoaded, fetchServed, feePending, clock, exFin>>

addLiability(entry, ok) ==
  /\ Op
  /\ user # NoUser
  /\ Checked(ok, Insert("liabilities",
                        [name |-> entry.name, current_balance |-> entry.currentBalance,
                         currency |-> entry.currency]))
  /\ UNCHANGED <<user, data, localData, isLoaded, fetchServed, feePending, clock, exFin>>

\* supabase...update(payload).eq('id', id)
UpdateRow(table, id, payload) ==
  /\ db' = [db EXCEPT ![table] = UpdateId(@, id, payload)]
  /\ UNCHANGED nextId

updateLiability(id, updates, ok) ==
  /\ Op
  /\ user # NoUser
  /\ IF "currentBalance" \in DOMAIN updates
     THEN /\ Unchecked(ok, UpdateRow("liabilities", id,
                                     [current_balance |-> updates.currentBalance]))
          /\ UNCHANGED <<data, localData>>
     ELSE /\ data' = [data EXCEPT !.liabilities = UpdateId(@, id, updates)]
          /\ Persist
          /\ UNCHANGED <<db, nextId, fetchSent>>
  /\ UNCHANGED <<user, isLoaded, fetchServed, feePending, clock, exFin>>

deleteLiability(id, ok) ==
  /\ Op
  /\ user # NoUser
  /\ Unchecked(ok, Delete("liabilities", id))
  /\ UNCHANGED <<user, data, localData, isLoaded, fetchServed, feePending, clock, exFin>>

addLiquidity(entry, ok) ==
  /\ Op
  /\ user # NoUser
  /\ Checked(ok, Insert("liquidity_accounts",
                        [name |-> entry.name, balance |-> entry.balance,
                         currency |-> entry.currency]))
  /\ UNCHANGED <<user, data, localData, isLoaded, fetchServed, feePending, clock, exFin>>

updateLiquidity(id, updates, ok) ==
  /\ Op
  /\ user # NoUser
  /\ IF "balance" \in DOMAIN updates
     THEN /\ Unchecked(ok, UpdateRow("liquidity_accounts", id,
                                     [balance |-> updates.balance]))
          /\ UNCHANGED <<data, localData>>
     ELSE /\ data' = [data EXCEPT !.liquidity = UpdateId(@, id, updates)]
          /\ Persist
          /\ UNCHANGED <<db, nextId, fetchSent>>
  /\ UNCHANGED <<user, isLoaded, fetchServed, feePending, clock, exFin>>

deleteLiquidity(id, ok) ==
  /\ Op
  /\ user # NoUser
  /\ Unchecked(ok, Delete("liquidity_accounts", id))
  /\ UNCHANGED <<user, data, localData, isLoaded, fetchServed, feePending, clock, exFin>>

\* a row whose total_assets is taken from the wrong field of the totals
SnapshotRowWrongField(totals) ==
  [date |-> clock, net_worth |-> totals.netWorth,
   total_assets |-> totals.totalInvestments,
   total_liabilities |-> totals.totalLiabilities,
   liquidity |-> totals.totalLiquidity, investments |-> totals.totalInvestments,
   crypto |-> totals.totalCrypto]

\* the row takeSnapshot inserts, from one evaluation of calculateTotals
SnapshotRow(totals) ==
  [date |-> clock, net_worth |-> totals.netWorth,
   total_assets |-> totals.totalAssets,
   total_liabilities |-> totals.totalLiabilities,
   liquidity |-> totals.totalLiquidity, investments |-> totals.totalInvestments,
   crypto |-> totals.totalCrypto]

takeSnapshot(convertFn, ok) ==
  /\ Op
  /\ user # NoUser
  /\ LET totals == calculateTotals(data, convertFn)
     IN IF ok
        THEN /\ Room
             /\ Insert("portfolio_snapshots", SnapshotRow(totals))
             /\ SendFetch(FALSE)
        ELSE UNCHANGED <<db, nextId, fetchSent>>
  /\ UNCHANGED <<user, data, localData, isLoaded, fetchServed, feePending, clock, exFin>>

\* the handlers that refresh prices: Dashboard.handleGlobalRefresh,
\* InvestmentTable.handleUpdateAll, CryptoTable.refreshPrices and the
\* CryptoTable.handleUpdateAll that looks every coin up on its own
Kinds == {"handleGlobalRefresh", "handleUpdateAll", "refreshPrices",
          "handleUpdateAllCrypto"}

\* the ids of the holdings of the refresh specification
HoldingIds == {2, 3, 5, 6}

NoResults == [id \in HoldingIds |-> 0]

NotRunning ==
  [active |-> FALSE, run |-> 0, crypto |-> <<>>, stocks |-> <<>>, pending |-> {},
   results |-> NoResults, batch |-> "none",
   prices |-> [c \in {"bitcoin", "ethereum"} |-> 0]]

\* time passes; it is observed by the calls still to come and by the
\* responses still to arrive
Tick ==
  /\ clock < MaxClock
  /\ opCount < MaxOps \/ batchCalls # EmptyBag
  /\ clock' = clock + 1
  /\ UNCHANGED <<opCount, user, data, localData, isLoaded, db, nextId, fetchSent, fetchServed,
                 feePending, exFin>>

(***************************************************************************)
(* The finance hook with a signed-in user                                  *)
(***************************************************************************)
Owner == "mattioli.simone.10@gmail.com"

Ids(s) == {s[i].id : i \in 1..Len(s)}

\* settings as the provider can hold them while the hook runs
SomeRates == [c \in Currencies |-> IF c = "USD" THEN 3 ELSE 0]

\* the scripts that define the trigger check_email_whitelist:
\* setup_db.sql, fix_whitelist.sql and the earlier setup script
Scripts == {"setup_db.sql", "fix_whitelist.sql", "setup_db.sql (earlier)"}

EarlierScript == "setup_db.sql (earlier)"

\* the provider and the backend with the owner signed in
IdleAuth ==
  /\ session = Owner
  /\ loading = FALSE
  /\ stored = Owner
  /\ getSessionPending = FALSE
  /\ authEvents = <<>>
  /\ signingOut = 0
  /\ warned = FALSE
  /\ authUsers = {Owner}
  /\ trigger = EarlierScript
  /\ signInCalls = {}
  /\ signInResult = <<>>

(***************************************************************************)
(* The calculators.  In the compound interest calculator an amount is an   *)
(* integer number of 1/Unit, so that half units can be entered; a rate is  *)
(* a whole number of per cent.  A product with a rate is cut to the unit   *)
(* below, where the program keeps the double next to it.                   *)
(***************************************************************************)
Unit == 2

\* largest horizon, in years, that is entered into a calculator
MaxHorizon == 2

\* the rounding that drops the fraction
RoundDown(v) == v \div Unit

\* Math.round of an amount: the nearest integer, a half goes up
Round(v) == (2 * v + Unit) \div (2 * Unit)

\* x * (1 + (interestRate / 100) / 12), kept to 1/Unit; exact when the
\* rate is 0
MulRate(x, r) == (x * (1200 + r)) \div 1200

\* the 12 monthly steps of one year: <<currentBalance, totalContributed>>
RECURSIVE CompoundMonths(_, _, _, _, _)
CompoundMonths(b, t, C, r, n) ==
  IF n = 0 THEN <<b, t>>
  ELSE CompoundMonths(MulRate(b + C, r), t + C, C, r, n - 1)

CompoundPoint(year, b, t) ==
  [year |-> year, balance |-> Round(b), contributed |-> Round(t),
   interest |-> Round(b - t)]

\* for (let year = 0; year <= years; year++) { result.push(...); 12 months }
RECURSIVE CompoundYears(_, _, _, _, _, _)
CompoundYears(year, years, b, t, C, r) ==
  IF year > years THEN <<>>
  ELSE LET nx == CompoundMonths(b, t, C, r, 12) IN
         <<CompoundPoint(year, b, t)>> \o
           CompoundYears(year + 1, years, nx[1], nx[2], C, r)

\* the projection whose first point already holds a contribution
CompoundDataEarly(P0, C, r, years) ==
  CompoundYears(0, years, P0 + C, P0 + C, C, r)

\* useMemo(() => { ... }, [initialPrincipal, monthlyContribution, interestRate, years])
CompoundData(P0, C, r, years) == CompoundYears(0, years, P0, P0, C, r)

\* the component after a render with these inputs
Compound(P0, C, r, years) ==
  [initialPrincipal |-> P0, monthlyContribution |-> C, interestRate |-> r,
   years |-> years, data |-> CompoundData(P0, C, r, years)]

(***************************************************************************)
(* FIRECalculator.  Amounts are whole thousands, ages whole years, the     *)
(* returns whole per cent and the withdrawal rate tenths of a per cent.    *)
(* A quotient the program keeps as a double is kept as a fraction.         *)
(***************************************************************************)
\* const maxYears = 60
maxYears == 60

\* x / f for a number x and a fraction f
FracDiv(x, f) == [num |-> x * f.den, den |-> f.num]

\* x >= f
AtLeast(x, f) == x * f.den >= f.num

\* the target that leaves out the division by 100
FireNumberNoPercent(annualExpenses, swr) ==
  FracDiv(annualExpenses, [num |-> swr, den |-> 10])

\* const fireNumber = annualExpenses / (swr / 100)
FireNumber(annualExpenses, swr) ==
  FracDiv(annualExpenses, [num |-> swr, den |-> 1000])

\* netWorth * (1 + realReturnRate) + savings, kept to the whole amount, with
\* realReturnRate = (1 + nominalReturn / 100) / (1 + inflation / 100) - 1
Grow(netWorth, f) ==
  (netWorth * (100 + f.nominalReturn)) \div (100 + f.inflation)
    + (f.annualIncome - f.annualExpenses)

\* the loop of projectionData from year i on: netWorth and reachFireAge
\* (<<>> for null) are the loop's variables, points the data pushed so far
RECURSIVE ProjectYears(_, _, _, _, _)
ProjectYears(i, netWorth, reachFireAge, points, f) ==
  IF i > maxYears THEN [data |-> points, reachFireAge |-> reachFireAge]
  ELSE LET age == f.currentAge + i
           pushed == Append(points, [age |-> age, netWorth |-> netWorth])
       IN IF AtLeast(netWorth, FireNumber(f.annualExpenses, f.swr))
             /\ reachFireAge = <<>>
          THEN ProjectYears(i + 1, Grow(netWorth, f), <<age>>, pushed, f)
          ELSE ProjectYears(i + 1, Grow(netWorth, f), reachFireAge, pushed, f)

\* projectionData and reachFireAge of a render
FireYears(f) == ProjectYears(0, f.currentNetWorth, <<>>, <<>>, f)

\* const yearsToFire = reachFireAge ? reachFireAge - currentAge : '> 60';
\* <<>> stands for '> 60'
YearsToFire(reach, currentAge) ==
  IF reach # <<>> /\ reach[1] # 0 THEN <<reach[1] - currentAge>> ELSE <<>>

\* the component after a render with these inputs
Fire(inputs) ==
  LET p == FireYears(inputs) IN
    [currentAge |-> inputs.currentAge, currentNetWorth |-> inputs.currentNetWorth,
     annualIncome |-> inputs.annualIncome, annualExpenses |-> inputs.annualExpenses,
     swr |-> inputs.swr, nominalReturn |-> inputs.nominalReturn,
     inflation |-> inputs.inflation,
     fireNumber |-> FireNumber(inputs.annualExpenses, inputs.swr),
     data |-> p.data, reachFireAge |-> p.reachFireAge,
     yearsToFire |-> YearsToFire(p.reachFireAge, inputs.currentAge)]

\* the age the component computes from the date of the day
DefaultAges == {22, 23}

FireDefaults(age) ==
  [currentAge |-> age, currentNetWorth |-> 50, annualIncome |-> 80,
   annualExpenses |-> 40, swr |-> 40, nominalReturn |-> 7, inflation |-> 3]

(***************************************************************************)
(* MonteCarloSimulation.  Amounts are in 1/Unit, the expected return and   *)
(* the volatility whole per cent, the exponent and the growth factor of a  *)
(* month millionths; a random shock is a whole number of standard          *)
(* deviations.                                                             *)
(***************************************************************************)
Micro == 1000000

\* simulationCount as the component starts: it stands for 500, and the
\* button changes it to one more and back
MaxSims == 3

\* drift = (annualMean - 0.5 * Math.pow(annualVol, 2)) * timeStep
Drift(expectedReturn, volatility) ==
  (10000 * expectedReturn - 50 * volatility * volatility) \div 12

\* vol = annualVol * Math.sqrt(timeStep)
Vol(volatility) == (volatility * 288675) \div 100

\* the exponent whose shock is not scaled by the volatility
ExponentUnscaled(drift, vol, randomShock) == drift + 288675 * randomShock

\* drift + vol * randomShock
Exponent(drift, vol, randomShock) == drift + vol * randomShock

\* Math.exp, to the second order
Exp(e) == Micro + e + ((e \div 100) * (e \div 100)) \div 200

\* the tables the draws of one run are taken from
DrawTables == 1..3

\* randn_bm() of the given month of the given simulation
randn_bm(table, sim, month) ==
  CASE table = 1 -> 0
    [] table = 2 -> ((sim + month) % 3) - 1
    [] OTHER -> IF (sim + month) % 2 = 0 THEN 1 ELSE -1

\* currentBalance * growthFactor + monthlyContribution
MonthStep(currentBalance, growthFactor, monthlyContribution) ==
  LET e == growthFactor - Micro IN
    currentBalance + (currentBalance * (e \div 1000)) \div 1000
      + (currentBalance * (e % 1000)) \div Micro + monthlyContribution

\* the balance after the months first..last of simulation sim
RECURSIVE SimMonths(_, _, _, _, _, _)
SimMonths(month, last, currentBalance, sim, table, m) ==
  IF month > last THEN currentBalance
  ELSE LET randomShock == randn_bm(table, sim, month)
           growthFactor == Exp(Exponent(Drift(m.expectedReturn, m.volatility),
                                        Vol(m.volatility), randomShock))
       IN SimMonths(month + 1, last,
                    MonthStep(currentBalance, growthFactor, m.monthlyContribution),
                    sim, table, m)

\* for (let month = 1; month <= years * 12; month++), a year at a time:
\* the balance is pushed to simPath when month % 12 === 0
RECURSIVE SimYears(_, _, _, _, _)
SimYears(year, simPath, sim, table, m) ==
  IF year > m.years THEN simPath
  ELSE LET balance == SimMonths(12 * year - 11, 12 * year, simPath[Len(simPath)],
                                sim, table, m)
       IN SimYears(year + 1, Append(simPath, balance), sim, table, m)

\* runSimulation: one path of yearly balances for each simulation
runSimulation(m, table) ==
  [k \in 1..m.simulationCount |->
     SimYears(1, <<m.initialPortfolio>>, k - 1, table, m)]

RECURSIVE InsertNumber(_, _)
InsertNumber(x, s) ==
  IF s = <<>> THEN <<x>>
  ELSE IF x <= Head(s) THEN <<x>> \o s
  ELSE <<Head(s)>> \o InsertNumber(x, Tail(s))

\* .sort((a, b) => a - b)
RECURSIVE SortNumbers(_)
SortNumbers(s) ==
  IF s = <<>> THEN <<>> ELSE InsertNumber(Head(s), SortNumbers(Tail(s)))

\* yearValues[Math.floor(yearValues.length * tenths / 10)]
Percentile(yearValues, tenths) == yearValues[(Len(yearValues) * tenths) \div 10 + 1]

\* chartData: the percentiles of each year of 0..years
ChartData(simulations, years) ==
  [k \in 1..(years + 1) |->
     LET yearValues == SortNumbers([i \in 1..Len(simulations) |-> simulations[i][k]])
     IN [year |-> k - 1,
         p10 |-> Round(Percentile(yearValues, 1)),
         p50 |-> Round(Percentile(yearValues, 5)),
         p90 |-> Round(Percentile(yearValues, 9))]]

\* the component after a render with these inputs and these draws
Monte(m, table) ==
  LET simulations == runSimulation(m, table) IN
    [initialPortfolio |-> m.initialPortfolio,
     monthlyContribution |-> m.monthlyContribution,
     expectedReturn |-> m.expectedReturn, volatility |-> m.volatility,
     years |-> m.years, simulationCount |-> m.simulationCount,
     draws |-> table, simulations |-> simulations,
     chartData |-> ChartData(simulations, m.years)]

\* a calculator whose page is not shown
Unmounted == <<>>

\* no calculator is shown
IdleCalc ==
  /\ compound = Unmounted
  /\ fire = Unmounted
  /\ monte = Unmounted

\* the revisions of lib/api.ts in the repository
ApiVersions == {"api.ts", "part_020", "part_021"}

\* no getStockPrice call has been made
NoQuote(version) ==
  [version |-> version, symbol |-> <<>>, apiKey |-> Null, stage |-> "idle",
   tried |-> 0, requests |-> <<>>, result |-> 0]

IdleTool ==
  /\ finnhubKey = Null
  /\ quote = NoQuote("part_021")

\* no refresh runs and none has run
IdleRefresh ==
  /\ refresh = [k \in Kinds |-> NotRunning]
  /\ lastUpdate = [id \in HoldingIds |-> <<>>]

\* no batch price call has been made
IdleCache ==
  /\ cache = <<>>
  /\ cacheWrittenAt = -1
  /\ batchCalls = EmptyBag
  /\ batchOut = <<>>

InitSettings ==
  /\ legacy = FALSE
  /\ currency = "EUR"
  /\ currencyRates = <<SomeRates>>
  /\ exchangeRate = RateDen
  /\ ratesInFlight = [c \in Currencies |-> 0]
  /\ conv = <<>>

InitFin ==
  /\ user = Owner
  /\ data = getInitialData
  /\ localData = <<>>
  /\ isLoaded = FALSE
  /\ db \in {EmptyDb, SeededDb}
  /\ nextId = FirstNewId
  /\ fetchSent = [b \in BOOLEAN |-> IF b THEN 0 ELSE 1]
  /\ fetchServed = {}
  /\ feePending = [f \in FeeValues |-> 0]
  /\ clock = 0
  /\ opCount = 0
  /\ InitSettings
  /\ IdleAuth
  /\ IdleCache
  /\ IdleRefresh
  /\ IdleTool
  /\ IdleCalc

NextFin ==
  \/ \E failed \in BOOLEAN : FetchServe(failed)
  \/ \E f \in fetchServed : FetchDeliver(f)
  \/ \E e \in TxEntries, ok \in BOOLEAN : addTransaction(e, ok)
  \/ \E id \in Ids(data.transactions), ok \in BOOLEAN : deleteTransaction(id, ok)
  \/ \E e \in InvEntries, ok \in BOOLEAN : addInvestment(e, ok)
  \/ \E f \in FeeValues, ok \in BOOLEAN : logFee(f, ok)
  \/ \E i \in 1..Len(data.investments), p \in FinPrices :
       updateInvestment(data.investments[i].id,
                        [currentValue |-> p * data.investments[i].quantity,
                         updatedAt |-> clock])
  \/ \E id \in Ids(data.investments), ok \in BOOLEAN : deleteInvestment(id, ok)
  \/ \E e \in CryptoEntries, ok \in BOOLEAN : addCrypto(e, ok)
  \/ \E id \in Ids(data.crypto), p \in FinPrices :
       updateCrypto(id, [currentPrice |-> p, updatedAt |-> clock])
  \/ \E id \in Ids(data.crypto), ok \in BOOLEAN : deleteCrypto(id, ok)
  \/ \E e \in LiabilityEntries, ok \in BOOLEAN : addLiability(e, ok)
  \/ \E id \in Ids(data.liabilities), u \in LiabilityUpdates, ok \in BOOLEAN :
       updateLiability(id, u, ok)
  \/ \E id \in Ids(data.liabilities), ok \in BOOLEAN : deleteLiability(id, ok)
  \/ \E e \in LiquidityEntries, ok \in BOOLEAN : addLiquidity(e, ok)
  \/ \E id \in Ids(data.liquidity), u \in LiquidityUpdates, ok \in BOOLEAN :
       updateLiquidity(id, u, ok)
  \/ \E id \in Ids(data.liquidity), ok \in BOOLEAN : deleteLiquidity(id, ok)
  \/ \E fn \in ConvFns, ok \in BOOLEAN : takeSnapshot(fn, ok)

SpecFin == InitFin /\ [][NextFin]_vars

(***************************************************************************)
(* Properties of the finance hook                                          *)
(***************************************************************************)
Snapshots == db.portfolio_snapshots

\* C1: for every content of the collections and every conversion function,
\* calculateTotals returns netWorth = totalAssets - totalLiabilities, and
\* every snapshot row the backend holds carries
\* net_worth = total_assets - total_liabilities.
C1_NetWorthIdentity ==
  /\ \A fn \in ConvFns :
       LET t == calculateTotals(data, fn)
       IN t.netWorth = t.totalAssets - t.totalLiabilities
  /\ \A i \in 1..Len(Snapshots) :
       Snapshots[i].net_worth
         = Snapshots[i].total_assets - Snapshots[i].total_liabilities

\* a snapshot was taken of holdings with assets and liabilities
C1_Witness ==
  \E i \in 1..Len(Snapshots) :
    /\ Snapshots[i].total_liabilities > 0
    /\ Snapshots[i].total_assets > 0
    /\ Snapshots[i].investments > 0
    /\ Snapshots[i].net_worth # Snapshots[i].total_assets

\* the steps of a write operation whose backend call returned an error:
\* the operation itself and the delivery of the fetchData it issued
FailedWriteStep ==
  \/ \E e \in TxEntries : addTransaction(e, FALSE)
  \/ \E id \in Ids(data.transactions) : deleteTransaction(id, FALSE)
  \/ \E e \in InvEntries : addInvestment(e, FALSE)
  \/ \E id \in Ids(data.investments) : deleteInvestment(id, FALSE)
  \/ \E e \in CryptoEntries : addCrypto(e, FALSE)
  \/ \E id \in Ids(data.crypto) : deleteCrypto(id, FALSE)
  \/ \E e \in LiabilityEntries : addLiability(e, FALSE)
  \/ \E id \in Ids(data.liabilities) :
       updateLiability(id, [currentBalance |-> 3], FALSE)
  \/ \E id \in Ids(data.liabilities) : deleteLiability(id, FALSE)
  \/ \E e \in LiquidityEntries : addLiquidity(e, FALSE)
  \/ \E id \in Ids(data.liquidity) : updateLiquidity(id, [balance |-> 3], FALSE)
  \/ \E id \in Ids(data.liquidity) : deleteLiquidity(id, FALSE)
  \/ \E fn \in ConvFns : takeSnapshot(fn, FALSE)
  \/ \E f \in fetchServed : f.failed /\ FetchDeliver(f)

\* C3: a write operation whose backend call returns an error leaves the
\* in-memory data as it was.
C3_FailedWriteKeepsData == [][FailedWriteStep => data' = data]_vars

\* no fetchData call and no continuation of a write is in flight
Quiescent == isLoaded /\ FetchCount = 0

\* the rows of a collection, by primary key
RowIds(d) ==
  [transactions |-> Ids(d.transactions), investments |-> Ids(d.investments),
   crypto |-> Ids(d.crypto), liabilities |-> Ids(d.liabilities),
   liquidity |-> Ids(d.liquidity), snapshots |-> Ids(d.snapshots)]

\* C5: once all writes and refetches have completed, the in-memory
\* collections hold exactly the rows of the backend, whatever the order in
\* which the refetch responses arrived.
C5_InSyncWhenQuiescent == Quiescent => RowIds(data) = RowIds(FetchedData(db))

(***************************************************************************)
(* The settings provider: base currency, rate table, conversion            *)
(***************************************************************************)
\* number of exchange-rate requests in flight at once
MaxRates == 2

\* the finance hook at rest, as the other providers see it
IdleHook ==
  /\ data = getInitialData
  /\ localData = <<>>
  /\ isLoaded = FALSE
  /\ db = EmptyDb
  /\ nextId = FirstNewId
  /\ fetchSent = [b \in BOOLEAN |-> 0]
  /\ fetchServed = {}
  /\ feePending = [f \in FeeValues |-> 0]
  /\ clock = 0
  /\ opCount = 0

IdleFin == user = Owner /\ IdleHook

\* { ...data.rates } of https://api.frankfurter.app/latest?from=base, in
\* units of 1/RateDen: the base itself is not a key of the table
RatesFor(base) ==
  [c \in Currencies |->
     IF c = base THEN 0
     ELSE CASE base = "EUR" -> (IF c = "USD" THEN 3 ELSE 1)
            [] base = "USD" -> (IF c = "EUR" THEN 1 ELSE 4)
            [] base = "GBP" -> (IF c = "EUR" THEN 4 ELSE 3)]

\* parseFloat(e.target.value) || 1, in units of 1/RateDen
ManualRates == {RateDen, 3}

\* the amounts and source currencies handed to convertCurrency
ConvValues == {6, 12}

ConvSources == Currencies \cup {Null, "BTC"}

RatesCount == SumOver(ratesInFlight, Currencies)

\* refreshRates: the request is issued for the currency of this render
refreshRatesCall(base) ==
  ratesInFlight' = [ratesInFlight EXCEPT ![base] = @ + 1]

\* the user presses the refresh button
refreshRates ==
  /\ RatesCount < MaxRates
  /\ refreshRatesCall(currency)
  /\ UNCHANGED <<legacy, currency, currencyRates, exchangeRate, conv, exSet>>

\* setCurrency(c); the [refreshRates] effect re-runs for the new currency
setCurrency(c) ==
  /\ c # currency
  /\ RatesCount < MaxRates
  /\ currency' = c
  /\ refreshRatesCall(c)
  /\ UNCHANGED <<legacy, currencyRates, exchangeRate, conv, exSet>>

\* fetchExchangeRates(base) resolves: a table, or null on any failure
ratesResponse(base, ok) ==
  /\ ratesInFlight[base] > 0
  /\ ratesInFlight' = [ratesInFlight EXCEPT ![base] = @ - 1]
  /\ currencyRates' = IF ok THEN <<RatesFor(base)>> ELSE currencyRates
  /\ UNCHANGED <<legacy, currency, exchangeRate, conv, exSet>>

setExchangeRate(rate) ==
  /\ legacy
  /\ rate # exchangeRate
  /\ exchangeRate' = rate
  /\ UNCHANGED <<legacy, currency, currencyRates, ratesInFlight, conv, exSet>>

\* a component calls convertCurrency(value, sourceCurrency)
callConvertCurrency(value, sourceCurrency) ==
  /\ conv' = <<[value |-> value, sourceCurrency |-> sourceCurrency,
                currency |-> currency,
                rate |-> IF sourceCurrency \in Currencies
                         THEN RateOf(currencyRates, sourceCurrency) ELSE 0,
                legacy |-> legacy, exchangeRate |-> exchangeRate,
                result |-> convertCurrency(value, sourceCurrency)]>>
  /\ conv' # conv
  /\ UNCHANGED <<legacy, currency, currencyRates, exchangeRate, ratesInFlight, exSet>>

InitSet ==
  /\ IdleFin
  /\ IdleAuth
  /\ IdleCache
  /\ IdleRefresh
  /\ IdleTool
  /\ IdleCalc
  /\ legacy \in BOOLEAN
  /\ currency = "EUR"
  /\ currencyRates = NullRates
  /\ exchangeRate = RateDen
  /\ ratesInFlight = [c \in Currencies |-> IF c = "EUR" THEN 1 ELSE 0]
  /\ conv = <<>>

NextSet ==
  \/ refreshRates
  \/ \E c \in Currencies : setCurrency(c)
  \/ \E base \in Currencies, ok \in BOOLEAN : ratesResponse(base, ok)
  \/ \E r \in ManualRates : setExchangeRate(r)
  \/ \E v \in ConvValues, src \in ConvSources : callConvertCurrency(v, src)

SpecSet == InitSet /\ [][NextSet]_vars

----------------------------------------------------------------------------
Converted == conv # <<>>

SameCurrency(c) == c.sourceCurrency = Null \/ c.sourceCurrency = c.currency

\* C2 (as stated): convertCurrency returns the value unchanged when the
\* source currency is absent or is the base currency, and when it differs
\* from the base and no rate is known for it; when a rate is known it
\* returns value / rate.
C2_ConvertNoOpFallback ==
  Converted =>
    LET c == conv[1] IN
      /\ c.result \in Int
      /\ SameCurrency(c) => c.result = c.value
      /\ (~SameCurrency(c) /\ c.rate = 0) => c.result = c.value
      /\ (~SameCurrency(c) /\ c.rate # 0) => c.result = Quotient(c.value, c.rate)

\* C2 (amended): as above, except that the provider variant with a manual
\* exchange rate returns value * exchangeRate for a USD amount whose rate
\* is not known.
C2_ConvertFallback ==
  Converted =>
    LET c == conv[1]
        manual == c.legacy /\ c.sourceCurrency = "USD"
    IN
      /\ c.result \in Int
      /\ SameCurrency(c) => c.result = c.value
      /\ (~SameCurrency(c) /\ c.rate = 0 /\ ~manual) => c.result = c.value
      /\ (~SameCurrency(c) /\ c.rate = 0 /\ manual)
           => c.result = (c.value * c.exchangeRate) \div RateDen
      /\ (~SameCurrency(c) /\ c.rate # 0) => c.result = Quotient(c.value, c.rate)

\* a conversion from a foreign currency with no known rate came back unchanged
C2_Witness ==
  /\ Converted
  /\ ~SameCurrency(conv[1])
  /\ conv[1].rate = 0
  /\ conv[1].sourceCurrency \in Currencies
  /\ conv[1].currency # "EUR"
  /\ conv[1].result = conv[1].value

(***************************************************************************)
(* The auth provider and the auth backend                                  *)
(***************************************************************************)
\* number of auth-state changes waiting for the subscriber
MaxEvents == 2

DbOwner == "valeriocovabasilio@gmail.com"

\* a row of auth.users whose email column is NULL
NoEmail == "NULL"

Emails == {Owner, DbOwner, "other@example.com", NoEmail}

Unauthorized == "Unauthorized access. This account is not allowed."

InvalidCredentials == "Invalid login credentials"

\* the client-side check that lets every email through
ClientAcceptsAny(email) == email = email

\* session.user.email !== '...' and email !== '...' negated
ClientAccepts(email) == email = Owner

\* the email each script writes into check_email_whitelist
TriggerEmail(script) ==
  CASE script = "setup_db.sql" -> DbOwner
    [] script = "fix_whitelist.sql" -> DbOwner
    [] script = EarlierScript -> Owner

\* `if new.email != '...' then raise exception`: a NULL email makes the
\* comparison NULL, which does not raise
TriggerAccepts(script, email) ==
  email = NoEmail \/ email = TriggerEmail(script)

\* an operator runs one of the scripts in the SQL editor
runScript(script) ==
  /\ script # trigger
  /\ trigger' = script
  /\ UNCHANGED <<user, session, loading, stored, getSessionPending, authEvents,
                 signingOut, warned, authUsers, signInCalls, signInResult, exAuth>>

\* insert on auth.users: the trigger runs before the insert
createUser(email) ==
  /\ email \notin authUsers
  /\ TriggerAccepts(trigger, email)
  /\ authUsers' = authUsers \cup {email}
  /\ UNCHANGED <<user, session, loading, stored, getSessionPending, authEvents,
                 signingOut, warned, trigger, signInCalls, signInResult, exAuth>>

\* supabase.auth.getSession().then(...)
getSessionResolve ==
  /\ getSessionPending
  /\ getSessionPending' = FALSE
  /\ session' = stored
  /\ user' = stored
  /\ loading' = FALSE
  /\ UNCHANGED <<stored, authEvents, signingOut, warned, authUsers, trigger,
                 signInCalls, signInResult, exAuth>>

Notify(s) == authEvents' = Append(authEvents, s)

\* the supabase client obtains a session by another route than
\* signInWithEmail (a link carrying a token) and notifies the subscriber
sessionFromUrl(email) ==
  /\ email \in authUsers
  /\ Len(authEvents) < MaxEvents
  /\ stored' = email
  /\ Notify(email)
  /\ UNCHANGED <<user, session, loading, getSessionPending, signingOut, warned,
                 authUsers, trigger, signInCalls, signInResult, exAuth>>

signInWithEmail(email, passwordOk) ==
  /\ Len(authEvents) < MaxEvents
  /\ IF ~ClientAccepts(email)
     THEN /\ signInResult' = <<[email |-> email, error |-> Unauthorized]>>
          /\ UNCHANGED <<stored, authEvents, signInCalls>>
     ELSE /\ signInCalls' = signInCalls \cup {email}
          /\ IF email \in authUsers /\ passwordOk
             THEN /\ stored' = email
                  /\ Notify(email)
                  /\ signInResult' = <<[email |-> email, error |-> Null]>>
             ELSE /\ signInResult' = <<[email |-> email, error |-> InvalidCredentials]>>
                  /\ UNCHANGED <<stored, authEvents>>
  /\ UNCHANGED <<user, session, loading, getSessionPending, signingOut, warned,
                 authUsers, trigger, exAuth>>

signOut ==
  /\ Len(authEvents) < MaxEvents
  /\ stored # NoUser
  /\ stored' = NoUser
  /\ Notify(NoUser)
  /\ UNCHANGED <<user, session, loading, getSessionPending, signingOut, warned,
                 authUsers, trigger, signInCalls, signInResult, exAuth>>

\* the subscriber of onAuthStateChange up to its first await, or to its end
authStateChange ==
  /\ authEvents # <<>>
  /\ LET s == Head(authEvents) IN
       IF s # NoUser /\ ~ClientAccepts(s)
       THEN /\ signingOut < MaxEvents
            /\ stored' = NoUser
            /\ authEvents' = Append(Tail(authEvents), NoUser)
            /\ signingOut' = signingOut + 1
            /\ UNCHANGED <<user, session, loading>>
       ELSE /\ authEvents' = Tail(authEvents)
            /\ session' = s
            /\ user' = s
            /\ loading' = FALSE
            /\ UNCHANGED <<stored, signingOut>>
  /\ UNCHANGED <<getSessionPending, warned, authUsers, trigger, signInCalls,
                 signInResult, exAuth>>

\* the subscriber after `await supabase.auth.signOut()`
authStateChangeResume ==
  /\ signingOut > 0
  /\ signingOut' = signingOut - 1
  /\ session' = NoUser
  /\ user' = NoUser
  /\ warned' = TRUE
  /\ loading' = FALSE
  /\ UNCHANGED <<stored, getSessionPending, authEvents, authUsers, trigger,
                 signInCalls, signInResult, exAuth>>

InitAuth ==
  /\ IdleHook
  /\ InitSettings
  /\ IdleCache
  /\ IdleRefresh
  /\ IdleTool
  /\ IdleCalc
  /\ user = NoUser
  /\ session = NoUser
  /\ loading = TRUE
  /\ stored = NoUser
  /\ getSessionPending = TRUE
  /\ authEvents = <<>>
  /\ signingOut = 0
  /\ warned = FALSE
  /\ authUsers = {}
  /\ trigger \in Scripts
  /\ signInCalls = {}
  /\ signInResult = <<>>

NextAuth ==
  \/ \E sc \in Scripts : runScript(sc)
  \/ \E e \in Emails : createUser(e)
  \/ getSessionResolve
  \/ \E e \in Emails : sessionFromUrl(e)
  \/ \E e \in Emails, ok \in BOOLEAN : signInWithEmail(e, ok)
  \/ signOut
  \/ authStateChange
  \/ authStateChangeResume

SpecAuth == InitAuth /\ [][NextAuth]_vars

----------------------------------------------------------------------------
\* a signInWithEmail call with a refused email has just returned
RefusedSignIn ==
  /\ signInResult' # signInResult
  /\ ~(signInResult'[1].email = Owner)

\* the subscriber has just taken a session of a refused email off the queue
RefusedSession ==
  /\ authEvents # <<>>
  /\ Head(authEvents) \notin {NoUser, Owner}
  /\ authEvents' # authEvents
  /\ Len(authEvents') <= Len(authEvents)

\* C6: signInWithEmail with an email other than the allowlisted one returns
\* the 'Unauthorized access' error, hands nothing to the auth backend and
\* leaves user and session as they are; the subscriber, given a session of
\* another email, signs it out, and when it resumes user and session are null.
C6_RefusedEmail ==
  [][ /\ RefusedSignIn =>
           /\ signInResult'[1].error = Unauthorized
           /\ UNCHANGED <<signInCalls, stored, authEvents, user, session>>
      /\ RefusedSession =>
           /\ stored' = NoUser
           /\ signingOut' = signingOut + 1
           /\ user' \in {user, NoUser}
      /\ signingOut' < signingOut => user' = NoUser /\ session' = NoUser
    ]_vars

\* a sign-in was refused on the client and a session of another email was
\* signed out by the subscriber
C6_Witness ==
  /\ signInResult # <<>>
  /\ signInResult[1].email = DbOwner
  /\ signInResult[1].error = Unauthorized
  /\ warned
  /\ signingOut = 0
  /\ user = NoUser
  /\ session = NoUser
  /\ signInCalls = {}

\* C7: the client-side check and the trigger check_email_whitelist accept
\* the same emails.
C7_SameAllowlist ==
  \A e \in Emails : ClientAccepts(e) <=> TriggerAccepts(trigger, e)

(***************************************************************************)
(* The crypto batch price cache.  The clock counts minutes.                *)
(***************************************************************************)
\* 5 * 60 * 1000 ms
CACHE_DURATION == 5

CoinIds == {"bitcoin", "ethereum"}

\* a Record<string, number> over the coin ids: 0 stands for a missing key
\* (`if (data[id]?.usd)` and `if (cached.prices[id])` never keep a 0)
NoPrices == [c \in CoinIds |-> 0]

\* the item lists handed to the batch call
ItemLists ==
  { <<[symbol |-> "DOGE", coinId |-> Null]>>,
    <<[symbol |-> "BTC", coinId |-> "bitcoin"], [symbol |-> "ETH", coinId |-> "ethereum"]>>,
    <<[symbol |-> "ETH", coinId |-> "ethereum"], [symbol |-> "DOGE", coinId |-> Null]>> }

\* bodies of a 200 response of /simple/price, as id -> usd
ApiData ==
  { [c \in CoinIds |-> 1], [c \in CoinIds |-> IF c = "bitcoin" THEN 2 ELSE 0] }

\* 200 with a body, 429, or any other failure of the request
Statuses == {"ok", "429", "error"}

\* items.forEach(item => { if (item.coinId) uniqueIds.add(item.coinId) })
UniqueIds(items) ==
  {items[i].coinId : i \in {j \in 1..Len(items) : items[j].coinId # Null}}

\* idsArray.forEach(id => { if (src[id]) result[id] = src[id] })
PickPrices(src, ids) == [c \in CoinIds |-> IF c \in ids THEN src[c] ELSE 0]

\* the freshness test that also takes an entry of exactly CACHE_DURATION
CacheFreshInclusive(now) ==
  cache # <<>> /\ now - cache[1].timestamp <= CACHE_DURATION

\* cachedRaw && now - cached.timestamp < CACHE_DURATION
CacheFresh(now) ==
  cache # <<>> /\ now - cache[1].timestamp < CACHE_DURATION

\* a call made by a component outside the refresh handlers
Caller == "caller"

\* what such a caller receives; a handler keeps the result of its own call
Returned(call, status, result) ==
  IF call.owner = Caller
  THEN batchOut' = <<[fn |-> call.fn, ids |-> call.ids,
                      forceRefresh |-> call.forceRefresh,
                      status |-> status, result |-> result]>>
  ELSE UNCHANGED batchOut

BatchCall(fn, ids, forceRefresh, owner) ==
  [fn |-> fn, ids |-> ids, forceRefresh |-> forceRefresh, now |-> clock,
   owner |-> owner]

\* what the call returns before any await: <<>> when it goes on to fetch
AtOnce(call, cachedAnswer) ==
  IF call.ids = {}
  THEN <<[status |-> "none", result |-> NoPrices]>>
  ELSE IF ~call.forceRefresh /\ CacheFresh(call.now)
       THEN <<[status |-> "cache", result |-> cachedAnswer]>>
       ELSE <<>>

\* cached.prices filtered for the requested ids
FilteredCache(ids) ==
  IF cache = <<>> THEN NoPrices ELSE PickPrices(cache[1].prices, ids)

\* the call up to its return or to `await fetch(...)`
BatchBegin(call, cachedAnswer) ==
  LET at == AtOnce(call, cachedAnswer) IN
    /\ IF at # <<>>
       THEN Returned(call, at[1].status, at[1].result) /\ UNCHANGED batchCalls
       ELSE batchCalls' = batchCalls (+) SetToBag({call}) /\ UNCHANGED batchOut
    /\ UNCHANGED <<cache, cacheWrittenAt>>

\* what the call returns after `await fetch(...)`
Fetched(call, status, body) ==
  IF status = "ok" THEN PickPrices(body, call.ids) ELSE NoPrices

\* the call after `await fetch(...)`: 429 returns {} (getBatchCryptoPrices)
\* or throws (fetchAllCryptoPrices), as does any other failure
BatchEnd(call, status, body) ==
  /\ BagIn(call, batchCalls)
  /\ batchCalls' = batchCalls (-) SetToBag({call})
  /\ IF status = "ok"
     THEN /\ cache' = <<[timestamp |-> call.now, prices |-> Fetched(call, status, body)]>>
          /\ cacheWrittenAt' = clock
          /\ Returned(call, "ok", Fetched(call, status, body))
     ELSE /\ Returned(call, IF call.fn = "fetchAllCryptoPrices" THEN "throw" ELSE status,
                      NoPrices)
          /\ UNCHANGED <<cache, cacheWrittenAt>>

BatchStart(call, cachedAnswer) ==
  /\ opCount < MaxOps
  /\ opCount' = opCount + 1
  /\ BatchBegin(call, cachedAnswer)
  /\ UNCHANGED <<clock, exCache>>

getBatchCryptoPrices(items, forceRefresh) ==
  LET call == BatchCall("getBatchCryptoPrices", UniqueIds(items), forceRefresh, Caller)
  IN BatchStart(call, FilteredCache(call.ids))

fetchAllCryptoPrices(coinIds, forceRefresh) ==
  LET call == BatchCall("fetchAllCryptoPrices", coinIds, forceRefresh, Caller)
  IN BatchStart(call, IF cache = <<>> THEN NoPrices ELSE cache[1].prices)

batchResponse(call, status, body) ==
  /\ call.owner = Caller
  /\ BatchEnd(call, status, body)
  /\ UNCHANGED <<opCount, clock, exCache>>

InitCache ==
  /\ user = Owner
  /\ IdleHook
  /\ InitSettings
  /\ IdleAuth
  /\ IdleCache
  /\ IdleRefresh
  /\ IdleTool
  /\ IdleCalc

NextCache ==
  \/ \E items \in ItemLists, f \in BOOLEAN : getBatchCryptoPrices(items, f)
  \/ \E f \in BOOLEAN : fetchAllCryptoPrices(CoinIds, f)
  \/ \E call \in BagToSet(batchCalls), st \in Statuses, body \in ApiData :
       batchResponse(call, st, body)
  \/ Tick

SpecCache == InitCache /\ [][NextCache]_vars

----------------------------------------------------------------------------
\* a batch call has just returned without waiting for the API
AnsweredAtOnce == opCount' # opCount /\ batchCalls' = batchCalls

\* a batch call has just sent its request to the API
Requested == BagToSet(batchCalls' (-) batchCalls)

\* the response of the API has just been handled
Responded == BagToSet(batchCalls (-) batchCalls')

CachedAnswer(o) ==
  IF o.fn = "fetchAllCryptoPrices" THEN cache[1].prices
  ELSE PickPrices(cache[1].prices, o.ids)

\* C10 (as stated): a call without forceRefresh less than 5 minutes after
\* the cache was last written sends no request and answers from the cache;
\* a call 5 minutes or more after the last write, or with forceRefresh,
\* sends the request; a successful response replaces the cache by the
\* fetched prices with the current time, any other response leaves it as
\* it is.
C10_CacheWindow ==
  [][ /\ AnsweredAtOnce =>
           LET o == batchOut'[1] IN
             /\ ~o.forceRefresh
             /\ cache # <<>>
             /\ clock - cacheWrittenAt < CACHE_DURATION
             /\ o.result = CachedAnswer(o)
             /\ UNCHANGED <<batchCalls, cache>>
      /\ \A c \in Requested :
           c.forceRefresh \/ cache = <<>> \/ clock - cacheWrittenAt >= CACHE_DURATION
      /\ \A c \in Responded :
           LET o == batchOut'[1] IN
             IF o.status = "ok"
             THEN cache' = <<[timestamp |-> clock, prices |-> o.result]>>
             ELSE cache' = cache
    ]_vars

\* C10 (amended): a call whose items carry no coin id returns {} and sends
\* no request, with or without forceRefresh.  Otherwise a call without
\* forceRefresh that starts less than 5 minutes after the timestamp stored
\* in the cache sends no request and answers from the cache; a call with
\* forceRefresh, with no cache entry, or 5 minutes or more after the stored
\* timestamp sends the request.  A successful response replaces the cache
\* by the fetched prices stamped with the start time of its call; any other
\* response leaves the cache as it is.
C10_CacheWindowByTimestamp ==
  [][ /\ AnsweredAtOnce =>
           LET o == batchOut'[1] IN
             /\ UNCHANGED <<batchCalls, cache>>
             /\ IF o.ids = {}
                THEN o.status = "none" /\ o.result = NoPrices
                ELSE /\ o.status = "cache"
                     /\ ~o.forceRefresh
                     /\ cache # <<>>
                     /\ clock - cache[1].timestamp < CACHE_DURATION
                     /\ o.result = CachedAnswer(o)
      /\ \A c \in Requested :
           /\ c.ids # {}
           /\ c.forceRefresh \/ cache = <<>>
                \/ clock - cache[1].timestamp >= CACHE_DURATION
           /\ cache' = cache
      /\ \A c \in Responded :
           LET o == batchOut'[1] IN
             IF o.status = "ok"
             THEN cache' = <<[timestamp |-> c.now, prices |-> o.result]>>
             ELSE cache' = cache
    ]_vars

\* a call was answered from a cache entry that is 4 minutes old, and the
\* entry was written by a response that arrived after its call had started
C10_Witness ==
  /\ batchOut # <<>>
  /\ batchOut[1].status = "cache"
  /\ batchOut[1].result # NoPrices
  /\ cache # <<>>
  /\ clock - cache[1].timestamp = CACHE_DURATION - 1
  /\ cacheWrittenAt > cache[1].timestamp

(***************************************************************************)
(* The price refresh handlers                                              *)
(***************************************************************************)
\* the backend tables behind the refresh specification: two quoted
\* investments, a bond and a coin
RefreshDb ==
  [transactions |-> <<>>,
   assets |-> <<[id |-> 2, category |-> "investment", type |-> "stock",
                 symbol |-> "MSFT", name |-> "MSFT", quantity |-> 1,
                 avg_buy_price |-> 2, trading_currency |-> "USD", fees |-> 0,
                 updated_at |-> 0],
                [id |-> 3, category |-> "crypto", type |-> "crypto",
                 symbol |-> "BTC", name |-> "Bitcoin", quantity |-> 2,
                 avg_buy_price |-> 1, trading_currency |-> "USD", fees |-> 0,
                 updated_at |-> 0],
                [id |-> 5, category |-> "investment", type |-> "etf",
                 symbol |-> "VWCE", name |-> "VWCE", quantity |-> 2,
                 avg_buy_price |-> 1, trading_currency |-> "EUR", fees |-> 0,
                 updated_at |-> 0],
                [id |-> 6, category |-> "investment", type |-> "bond",
                 symbol |-> "BTP", name |-> "BTP", quantity |-> 1,
                 avg_buy_price |-> 3, trading_currency |-> "EUR", fees |-> 0,
                 updated_at |-> 0]>>,
   liabilities |-> <<>>,
   liquidity_accounts |-> <<>>,
   portfolio_snapshots |-> <<>>]

\* largest value of the wall clock while prices are refreshed
MaxStamp == 1

\* the price the quote services have for every symbol at a time
MarketPrice(t) == t + 1

\* what getStockPrice / getCryptoPrice resolve to: 0 stands for null
Quotes == {0, MarketPrice(clock)}

\* the body /simple/price answers with at the time of the response
MarketData == [c \in CoinIds |-> MarketPrice(clock)]

\* String.prototype.toLowerCase on the names in use
Lower(name) == IF name = "Bitcoin" THEN "bitcoin" ELSE name

\* the fields the handlers read of the crypto holdings of their closure;
\* lookup is h.coinId || h.name.toLowerCase(), and fetchData loads no coinId
CryptoClosure(d) ==
  MapSeq(d.crypto, LAMBDA h : [id |-> h.id, symbol |-> h.symbol,
                                lookup |-> Lower(h.name)])

\* investments.filter(inv => inv.type === 'stock' || inv.type === 'etf')
StockClosure(d) ==
  MapSeq(SelectSeq(d.investments, LAMBDA i : i.type \in {"stock", "etf"}),
         LAMBDA i : [id |-> i.id, symbol |-> i.symbol, quantity |-> i.quantity])

CryptoItems(crypto) ==
  MapSeq(crypto, LAMBDA h : [symbol |-> h.symbol, coinId |-> h.lookup])

\* the test on a looked-up price that lets every answer through
HasPriceAlways(price) == price = price

\* cryptoPrices[lookup] !== undefined, price !== null, if (price)
HasPrice(price) == price # 0

CryptoCalls(crypto, prices, stamp) ==
  MapSeq(SelectSeq(crypto, LAMBDA h : HasPrice(prices[h.lookup])),
         LAMBDA h : [fn |-> "updateCrypto", id |-> h.id,
                     updates |-> [currentPrice |-> prices[h.lookup],
                                  updatedAt |-> stamp]])

CoinCalls(crypto, results, stamp) ==
  MapSeq(SelectSeq(crypto, LAMBDA h : HasPrice(results[h.id])),
         LAMBDA h : [fn |-> "updateCrypto", id |-> h.id,
                     updates |-> [currentPrice |-> results[h.id],
                                  updatedAt |-> stamp]])

StockCalls(stocks, results, stamp) ==
  MapSeq(SelectSeq(stocks, LAMBDA i : HasPrice(results[i.id])),
         LAMBDA i : [fn |-> "updateInvestment", id |-> i.id,
                     updates |-> [currentValue |-> results[i.id] * i.quantity,
                                  updatedAt |-> stamp]])

\* one updateCrypto / updateInvestment call: setData(prev => ...)
ApplyCall(d, c) ==
  IF c.fn = "updateCrypto"
  THEN [d EXCEPT !.crypto = UpdateId(@, c.id, c.updates)]
  ELSE IF user = NoUser THEN d
       ELSE [d EXCEPT !.investments = UpdateId(@, c.id, c.updates)]

RECURSIVE ApplyCalls(_, _)
ApplyCalls(d, calls) ==
  IF calls = <<>> THEN d ELSE ApplyCalls(ApplyCall(d, Head(calls)), Tail(calls))

RECURSIVE LogCalls(_, _, _)
LogCalls(log, calls, by) ==
  IF calls = <<>> THEN log
  ELSE LET c == Head(calls)
           n == IF log[c.id] = <<>> THEN 0 ELSE log[c.id][1].n
       IN LogCalls([log EXCEPT ![c.id] = <<[by |-> by, fn |-> c.fn,
                                            updates |-> c.updates, n |-> n + 1]>>],
                   Tail(calls), by)

StillWaiting(r) == r.pending # {} \/ r.batch = "pending"

\* the handler that goes on as soon as anything has resolved
AllSettledEarly(r) == r = r

\* `await Promise.all([...])` and `await getBatchCryptoPrices(...)` have resolved
AllSettled(r) == ~StillWaiting(r)

\* the update calls the handler makes once the lookups in `just` have resolved
Calls(k, r, just) ==
  CASE k = "handleGlobalRefresh" ->
         IF AllSettled(r)
         THEN CryptoCalls(r.crypto, r.prices, clock) \o StockCalls(r.stocks, r.results, clock)
         ELSE <<>>
    [] k = "refreshPrices" ->
         IF AllSettled(r) THEN CryptoCalls(r.crypto, r.prices, clock) ELSE <<>>
    [] k = "handleUpdateAll" ->
         StockCalls(SelectSeq(r.stocks, LAMBDA i : i.id \in just), r.results, clock)
    [] k = "handleUpdateAllCrypto" ->
         CoinCalls(SelectSeq(r.crypto, LAMBDA h : h.id \in just), r.results, clock)

\* the handler runs on to its next await, or to its end (finally)
Progress(k, r, just) ==
  LET calls == Calls(k, r, just) IN
    /\ data' = ApplyCalls(data, calls)
    /\ Persist
    /\ lastUpdate' = LogCalls(lastUpdate, calls, k)
    /\ refresh' = [refresh EXCEPT ![k] = [r EXCEPT !.active = StillWaiting(r)]]

Start(k) ==
  /\ isLoaded
  /\ opCount < MaxOps
  /\ ~refresh[k].active
  /\ opCount' = opCount + 1

\* a handler that calls getBatchCryptoPrices(items, forceRefresh)
StartBatch(k, forceRefresh, stocks) ==
  LET crypto == CryptoClosure(data)
      call == BatchCall("getBatchCryptoPrices", UniqueIds(CryptoItems(crypto)),
                        forceRefresh, k)
      at == AtOnce(call, FilteredCache(call.ids))
      r == [NotRunning EXCEPT !.run = refresh[k].run + 1,
                              !.crypto = crypto, !.stocks = stocks,
                              !.pending = Ids(stocks),
                              !.batch = IF at = <<>> THEN "pending" ELSE "done",
                              !.prices = IF at = <<>> THEN NoPrices ELSE at[1].result]
  IN /\ BatchBegin(call, FilteredCache(call.ids))
     /\ Progress(k, r, {})

handleGlobalRefresh ==
  /\ Start("handleGlobalRefresh")
  /\ StartBatch("handleGlobalRefresh", FALSE, StockClosure(data))
  /\ UNCHANGED <<clock, exRef>>

\* CryptoTable.refreshPrices(force); it returns at once without holdings
refreshPrices(force) ==
  /\ Start("refreshPrices")
  /\ IF data.crypto = <<>>
     THEN /\ refresh' = [refresh EXCEPT !["refreshPrices"].run = @ + 1]
          /\ UNCHANGED <<data, localData, cacheVars, lastUpdate>>
     ELSE StartBatch("refreshPrices", force, <<>>)
  /\ UNCHANGED <<clock, exRef>>

\* InvestmentTable.handleUpdateAll: one getStockPrice per quoted investment
handleUpdateAll ==
  /\ Start("handleUpdateAll")
  /\ LET stocks == StockClosure(data) IN
       Progress("handleUpdateAll",
                [NotRunning EXCEPT !.run = refresh["handleUpdateAll"].run + 1,
                                   !.stocks = stocks, !.pending = Ids(stocks)], {})
  /\ UNCHANGED <<clock, cacheVars, exRef>>

\* CryptoTable.handleUpdateAll: one getCryptoPrice per holding
handleUpdateAllCrypto ==
  /\ Start("handleUpdateAllCrypto")
  /\ LET crypto == CryptoClosure(data) IN
       Progress("handleUpdateAllCrypto",
                [NotRunning EXCEPT !.run = refresh["handleUpdateAllCrypto"].run + 1,
                                   !.crypto = crypto, !.pending = Ids(crypto)], {})
  /\ UNCHANGED <<clock, cacheVars, exRef>>

\* getStockPrice / getCryptoPrice of one holding resolves
priceResolve(k, id, price) ==
  /\ id \in refresh[k].pending
  /\ Progress(k, [refresh[k] EXCEPT !.pending = @ \ {id}, !.results[id] = price], {id})
  /\ UNCHANGED <<opCount, clock, cacheVars, exRef>>

\* the batch call of a handler resolves after its fetch
refreshBatchResponse(call, status, body) ==
  /\ call.owner \in Kinds
  /\ BatchEnd(call, status, body)
  /\ Progress(call.owner,
              [refresh[call.owner] EXCEPT !.batch = "done",
                                          !.prices = Fetched(call, status, body)], {})
  /\ UNCHANGED <<opCount, clock, exRef>>

\* time passes while a handler can still observe it
TickRefresh ==
  /\ clock < MaxStamp
  /\ opCount < MaxOps \/ \E k \in Kinds : refresh[k].active
  /\ clock' = clock + 1
  /\ UNCHANGED <<opCount, data, localData, cacheVars, refVars, exRef>>

InitRefresh ==
  /\ user = Owner
  /\ data = FetchedData(RefreshDb)
  /\ localData = <<Stringify(data)>>
  /\ isLoaded = TRUE
  /\ db = RefreshDb
  /\ nextId = 7
  /\ fetchSent = [b \in BOOLEAN |-> 0]
  /\ fetchServed = {}
  /\ feePending = [f \in FeeValues |-> 0]
  /\ clock = 0
  /\ opCount = 0
  /\ InitSettings
  /\ IdleAuth
  /\ IdleCache
  /\ IdleRefresh
  /\ IdleTool
  /\ IdleCalc

NextRefresh ==
  \/ handleGlobalRefresh
  \/ \E force \in BOOLEAN : refreshPrices(force)
  \/ handleUpdateAll
  \/ handleUpdateAllCrypto
  \/ \E k \in Kinds, id \in HoldingIds, price \in Quotes : priceResolve(k, id, price)
  \/ \E call \in BagToSet(batchCalls), st \in Statuses :
       refreshBatchResponse(call, st, MarketData)
  \/ TickRefresh

SpecRefresh == InitRefresh /\ [][NextRefresh]_vars

----------------------------------------------------------------------------
HoldingsOf(d) == Range(d.investments) \cup Range(d.crypto)

\* the handler has taken a step
Acted(k) == refresh'[k] # refresh[k]

\* after the step the handler holds a price for the holding
Obtained(k, id) ==
  \/ refresh'[k].results[id] # 0
  \/ \E h \in Range(refresh'[k].crypto) :
       h.id = id /\ refresh'[k].batch = "done" /\ refresh'[k].prices[h.lookup] # 0

\* the price the handler holds for the holding after the step
PriceHeld(k, h) ==
  IF refresh'[k].results[h.id] # 0 THEN refresh'[k].results[h.id]
  ELSE refresh'[k].prices[Lower(h.name)]

\* C4: in every step of a price refresh a holding is modified only if the
\* handler taking the step holds a price obtained for it, and then its
\* currentPrice / currentValue is that price (times the quantity); every
\* other holding keeps its currentPrice / currentValue and updatedAt.  A
\* handler whose lookups have all resolved, whatever their outcome, ends
\* (isRefreshing / isUpdating is false again).
C4_FailedLookupKeepsPrice ==
  [][ /\ \A h \in HoldingsOf(data') :
           h \notin HoldingsOf(data) =>
             \E k \in Kinds :
               /\ Acted(k)
               /\ Obtained(k, h.id)
               /\ h.updatedAt = clock
               /\ IF "currentPrice" \in DOMAIN h
                  THEN h.currentPrice = PriceHeld(k, h)
                  ELSE h.currentValue = PriceHeld(k, h) * h.quantity
      /\ \A k \in Kinds :
           (Acted(k) /\ ~StillWaiting(refresh'[k])) => ~refresh'[k].active
    ]_vars

\* the global refresh has ended at a later time than the data was loaded:
\* the lookup of investment 2 failed and the batch lookup returned no price,
\* both holdings are as they were, and investment 5 got its new value
C4_Witness ==
  LET r == refresh["handleGlobalRefresh"] IN
    /\ ~r.active
    /\ r.stocks # <<>>
    /\ r.results[2] = 0
    /\ r.results[5] = 2
    /\ r.batch = "done"
    /\ r.prices = NoPrices
    /\ clock = 1
    /\ \E i \in Range(data.investments) :
         i.id = 2 /\ i.currentValue = 0 /\ i.updatedAt = 0
    /\ \E i \in Range(data.investments) :
         i.id = 5 /\ i.currentValue = 4 /\ i.updatedAt = 1
    /\ \E c \in Range(data.crypto) : c.currentPrice = 0 /\ c.updatedAt = 0

\* C8: every holding carries the values of the latest update call made for
\* it, whichever refresh made the call and however the refreshes interleave:
\* no update is undone by an update to another holding, and of two updates
\* to one holding the later one stands.
C8_LastUpdateStands ==
  \A h \in HoldingsOf(data) :
    lastUpdate[h.id] # <<>> =>
      \A f \in DOMAIN lastUpdate[h.id][1].updates :
        h[f] = lastUpdate[h.id][1].updates[f]

\* two refreshes run at once: the table's handler has updated investment 2
\* and still waits for investment 5; the global refresh has then ended with
\* another price for investment 2 and a price for investment 5, and both
\* holdings carry the values of the global refresh
C8_Witness ==
  LET g == refresh["handleGlobalRefresh"]
      t == refresh["handleUpdateAll"]
  IN /\ t.active
     /\ 5 \in t.pending
     /\ t.results[2] # 0
     /\ ~g.active
     /\ g.results[2] # 0
     /\ g.results[2] # t.results[2]
     /\ g.results[5] # 0
     /\ lastUpdate[2] # <<>>
     /\ lastUpdate[5] # <<>>
     /\ lastUpdate[2][1].n = 2
     /\ lastUpdate[2][1].by = "handleGlobalRefresh"
     /\ lastUpdate[5][1].n = 1
     /\ \E i \in Range(data.investments) :
          i.id = 2 /\ i.currentValue = g.results[2] * i.quantity
     /\ \E i \in Range(data.investments) :
          i.id = 5 /\ i.currentValue = g.results[5] * i.quantity

\* the handler has just been started
Started(k) == refresh'[k].run # refresh[k].run

\* the handler has made update calls in this step
Updated(k) == Acted(k) /\ lastUpdate' # lastUpdate

\* C9 (as stated): a batch price refresh issues the lookups of all its
\* holdings at once and makes no update call until every lookup of the
\* batch has resolved.
C9_NoUpdateBeforeAllLookups ==
  [][ \A k \in Kinds :
        /\ Started(k) =>
             refresh'[k].pending =
               Ids(IF k = "handleUpdateAllCrypto" THEN refresh'[k].crypto
                   ELSE refresh'[k].stocks)
        /\ Updated(k) => ~StillWaiting(refresh'[k])
    ]_vars

\* C9 (amended): every handler issues the lookups of all its holdings at
\* once.  Dashboard.handleGlobalRefresh and CryptoTable.refreshPrices make
\* no update call until every lookup has resolved; the handleUpdateAll
\* handlers make the update call of a holding as soon as its own lookup has
\* resolved.
C9_GlobalWaitsForAllLookups ==
  [][ \A k \in Kinds :
        /\ Started(k) =>
             refresh'[k].pending =
               Ids(IF k = "handleUpdateAllCrypto" THEN refresh'[k].crypto
                   ELSE refresh'[k].stocks)
        /\ (Updated(k) /\ k \in {"handleGlobalRefresh", "refreshPrices"})
             => ~StillWaiting(refresh'[k])
        /\ (Updated(k) /\ k \in {"handleUpdateAll", "handleUpdateAllCrypto"})
             => \E id \in refresh[k].pending \ refresh'[k].pending :
                  /\ lastUpdate'[id] # lastUpdate[id]
                  /\ \A other \in HoldingIds \ {id} : lastUpdate'[other] = lastUpdate[other]
    ]_vars

\* the global refresh holds the price of one investment and still waits for
\* the other: it has made no update call
C9_Witness ==
  LET r == refresh["handleGlobalRefresh"] IN
    /\ r.active
    /\ r.results[2] # 0
    /\ 5 \in r.pending
    /\ lastUpdate[2] = <<>>
    /\ \E i \in Range(data.investments) : i.id = 2 /\ i.currentValue = 0

(***************************************************************************)
(* lib/api.ts: getStockPrice                                               *)
(* A symbol is the sequence of its dot-separated parts, <<"SAP", ".DE">>;  *)
(* a price of 0 stands for null / a missing field.                         *)
(***************************************************************************)
Symbols == {<<"AAPL">>, <<"SAP", ".DE">>, <<"eni", ".mi">>}

\* const suffixes = ['', '.DE', '.MI', '.L', '.PA', '.AS']
suffixes == <<"", ".DE", ".MI", ".L", ".PA", ".AS">>

\* String.prototype.toUpperCase on the last parts in use
ToUpperCase(part) == IF part = ".mi" THEN ".MI" ELSE part

\* symbol.toUpperCase().endsWith(suffix)
EndsWith(symbol, suffix) ==
  suffix = "" \/ ToUpperCase(symbol[Len(symbol)]) = suffix

\* symbol.toUpperCase().endsWith(suffix) ? symbol : symbol + suffix
TrySymbol(symbol, suffix) ==
  IF EndsWith(symbol, suffix) THEN symbol ELSE Append(symbol, suffix)

\* what the Finnhub quote request can come to: fetch rejects, a status that
\* is not ok, or a body whose field c is the price
FinnhubReplies ==
  { [status |-> "throw", price |-> 0], [status |-> "429", price |-> 0],
    [status |-> "500", price |-> 0], [status |-> "ok", price |-> -1],
    [status |-> "ok", price |-> 0], [status |-> "ok", price |-> 3] }

\* what a proxy request can come to; price is meta.regularMarketPrice
YahooReplies ==
  { [status |-> "throw", price |-> 0], [status |-> "500", price |-> 0],
    [status |-> "ok", price |-> 0], [status |-> "ok", price |-> 4] }

\* the Finnhub test that takes any price but 0
FinnhubPriceNonZero(reply) == reply.status = "ok" /\ reply.price # 0

\* res.ok and `if (data.c > 0) return data.c`
FinnhubPrice(reply) == reply.status = "ok" /\ reply.price > 0

\* `regularMarketPrice || null` of an ok response; every revision turns a
\* rejected fetch or another status into a failed attempt
YahooPrice(reply) == IF reply.status = "ok" THEN reply.price ELSE 0

\* proxy attempts the revision makes: api.ts asks once for the symbol as is
Attempts(version) == IF version = "api.ts" THEN 1 ELSE Len(suffixes)

\* the symbol of the i-th proxy request
Asked(version, symbol, i) ==
  IF version = "api.ts" THEN symbol ELSE TrySymbol(symbol, suffixes[i])

Request(to, symbol) == [to |-> to, symbol |-> symbol, reply |-> <<>>]

\* the latest request with its reply filled in
Replied(requests, reply) ==
  [requests EXCEPT ![Len(requests)].reply = <<reply>>]

\* the call goes on to the i-th proxy request, or returns null after the last
YahooFrom(q, requests, i) ==
  IF i <= Attempts(q.version)
  THEN [q EXCEPT !.stage = "yahoo", !.tried = i,
                 !.requests = Append(requests,
                                     Request("yahoo", Asked(q.version, q.symbol, i)))]
  ELSE [q EXCEPT !.stage = "done", !.requests = requests, !.result = 0]

\* localStorage.setItem(STORAGE_KEY_FINNHUB, key); the settings form can
\* store the empty string
setFinnhubKey(key) ==
  /\ opCount < MaxOps
  /\ opCount' = opCount + 1
  /\ finnhubKey' = key
  /\ UNCHANGED <<quote, exTool>>

\* getStockPrice(symbol) up to its first await
getStockPrice(symbol) ==
  /\ opCount < MaxOps
  /\ quote.stage \in {"idle", "done"}
  /\ opCount' = opCount + 1
  /\ LET q == [NoQuote(quote.version) EXCEPT !.symbol = symbol,
                                              !.apiKey = finnhubKey] IN
       quote' = IF q.apiKey \notin {Null, ""}
                THEN [q EXCEPT !.stage = "finnhub",
                               !.requests = <<Request("finnhub", symbol)>>]
                ELSE YahooFrom(q, <<>>, 1)
  /\ UNCHANGED <<finnhubKey, exTool>>

\* the Finnhub request settles
finnhubResponse(reply) ==
  /\ quote.stage = "finnhub"
  /\ LET requests == Replied(quote.requests, reply) IN
       quote' = IF FinnhubPrice(reply)
                THEN [quote EXCEPT !.stage = "done", !.requests = requests,
                                   !.result = reply.price]
                ELSE YahooFrom(quote, requests, 1)
  /\ UNCHANGED <<opCount, finnhubKey, exTool>>

\* a proxy request settles
yahooResponse(reply) ==
  /\ quote.stage = "yahoo"
  /\ LET requests == Replied(quote.requests, reply) IN
       quote' = IF YahooPrice(reply) # 0
                THEN [quote EXCEPT !.stage = "done", !.requests = requests,
                                   !.result = YahooPrice(reply)]
                ELSE YahooFrom(quote, requests, quote.tried + 1)
  /\ UNCHANGED <<opCount, finnhubKey, exTool>>

InitPrice ==
  /\ user = Owner
  /\ IdleHook
  /\ InitSettings
  /\ IdleAuth
  /\ IdleCache
  /\ IdleRefresh
  /\ finnhubKey = Null
  /\ \E version \in ApiVersions : quote = NoQuote(version)
  /\ IdleCalc

NextPrice ==
  \/ \E key \in {"", "key"} : setFinnhubKey(key)
  \/ \E symbol \in Symbols : getStockPrice(symbol)
  \/ \E reply \in FinnhubReplies : finnhubResponse(reply)
  \/ \E reply \in YahooReplies : yahooResponse(reply)

SpecPrice == InitPrice /\ [][NextPrice]_vars

----------------------------------------------------------------------------
\* the requests the call has made to one service, oldest first
RequestsTo(to) == SelectSeq(quote.requests, LAMBDA r : r.to = to)

\* the proxy attempt has come back without a price
FailedAttempt(r) == r.reply # <<>> /\ YahooPrice(r.reply[1]) = 0

\* the call has returned and every earlier request has failed
ReturnedFirstPrice ==
  LET n == Len(quote.requests)
      last == quote.requests[n]
  IN /\ quote.result = last.reply[1].price
     /\ last.to = "finnhub" => quote.result > 0
     /\ \A i \in 1..(n - 1) :
          LET r == quote.requests[i] IN
            IF r.to = "finnhub" THEN ~(r.reply[1].status = "ok" /\ r.reply[1].price > 0)
            ELSE FailedAttempt(r)

\* what holds of every revision: at most one Finnhub request, made first and
\* only with a key; a request is made only after the one before it has
\* failed; the call returns the first price it gets
PriceLookupCommon ==
  LET f == RequestsTo("finnhub")
      y == RequestsTo("yahoo")
  IN /\ Len(f) <= 1
     /\ Len(y) <= Len(suffixes)
     /\ Len(f) = 1 => quote.requests[1].to = "finnhub"
     /\ (quote.stage # "idle" /\ quote.apiKey \notin {Null, ""}) => Len(f) = 1
     /\ quote.apiKey \in {Null, ""} => Len(f) = 0
     /\ \A i \in 1..Len(f) : f[i].symbol = quote.symbol
     /\ (quote.stage = "done" /\ quote.result # 0) => ReturnedFirstPrice

\* C11 (as stated): getStockPrice makes at most one Finnhub request and six
\* proxy requests; with a key Finnhub is asked first and its price returned
\* if positive; otherwise the proxy is asked for symbol + suffix with the
\* suffixes '', '.DE', '.MI', '.L', '.PA', '.AS' in that order; the first
\* price is returned and null only when all six attempts have failed.
C11_SuffixFallback ==
  LET y == RequestsTo("yahoo") IN
    /\ PriceLookupCommon
    /\ \A i \in 1..Len(y) :
         y[i].symbol = (IF suffixes[i] = "" THEN quote.symbol
                        ELSE Append(quote.symbol, suffixes[i]))
    /\ (quote.stage = "done" /\ quote.result = 0) =>
         (Len(y) = Len(suffixes) /\ \A i \in 1..Len(y) : FailedAttempt(y[i]))

\* C11 (amended): as stated, except that the i-th proxy request asks for the
\* symbol itself when its upper case already ends with the i-th suffix, and
\* that the revision api.ts makes a single proxy request for the symbol as
\* it is and returns null when that one fails.
C11_PriceLookup ==
  LET y == RequestsTo("yahoo") IN
    /\ PriceLookupCommon
    /\ \A i \in 1..Len(y) :
         y[i].symbol = (IF quote.version = "api.ts" \/ EndsWith(quote.symbol, suffixes[i])
                        THEN quote.symbol
                        ELSE Append(quote.symbol, suffixes[i]))
    /\ (quote.stage = "done" /\ quote.result = 0) =>
         /\ Len(y) = (IF quote.version = "api.ts" THEN 1 ELSE Len(suffixes))
         /\ \A i \in 1..Len(y) : FailedAttempt(y[i])

\* Finnhub has answered with a price that is not positive, the proxy has
\* failed for '' and '.DE' and has a price for '.MI', which is returned
C11_Witness ==
  /\ quote.stage = "done"
  /\ quote.result = 4
  /\ quote.symbol = <<"AAPL">>
  /\ Len(quote.requests) = 4
  /\ quote.requests[1].to = "finnhub"
  /\ quote.requests[1].reply = <<[status |-> "ok", price |-> -1]>>
  /\ quote.requests[4].symbol = <<"AAPL", ".MI">>

(***************************************************************************)
(* useFinanceData without a user: the local store                          *)
(***************************************************************************)
\* what the key holds when the page is opened: nothing, something that is
\* not JSON, or the data an earlier session has stored
LocalDocs == {<<>>, <<NotJson>>, <<Stringify(FetchedData(SeededDb))>>}

\* a / b of two numbers that are not negative
JsDiv(a, b) ==
  IF b = 0 THEN (IF a = 0 THEN NaN ELSE Infinity) ELSE a \div b

\* what the crypto form holds when it is submitted (fixed fee)
CryptoForms ==
  [symbol : {"BTC"}, name : {"Bitcoin"}, quantity : {0, 2}, avgBuyPrice : {3},
   currentPrice : {5}, coinId : {"bitcoin"}, feeValue : {0, 2}]

\* CryptoTable.handleSubmit with an editId: the updates handed to onUpdate
CryptoEdit(form) ==
  LET calculatedFees == form.feeValue
      trueCostBasis == form.quantity * form.avgBuyPrice + calculatedFees
      effectiveAvgBuyPrice == JsDiv(trueCostBasis, form.quantity)
  IN [symbol |-> form.symbol, name |-> form.name, quantity |-> form.quantity,
      avgBuyPrice |-> effectiveAvgBuyPrice, currentPrice |-> form.currentPrice,
      currency |-> "USD", fees |-> calculatedFees, coinId |-> form.coinId,
      updatedAt |-> clock]

\* fetchData without a user, and the persistence effect that follows
\* setIsLoaded(true)
fetchDataLocal ==
  /\ user = NoUser
  /\ ~isLoaded
  /\ data' = IF localData # <<>> /\ localData[1] # NotJson
             THEN Parse(localData[1]) ELSE data
  /\ isLoaded' = TRUE
  /\ PersistLoaded
  /\ UNCHANGED <<opCount, user, db, nextId, fetchSent, fetchServed, feePending,
                 clock, exFin>>

\* the page is loaded again: the state of the hook starts over, what was in
\* flight is dropped, and with a user the mount effect calls fetchData
Remount ==
  /\ data' = getInitialData
  /\ isLoaded' = FALSE
  /\ fetchSent' = [b \in BOOLEAN |-> IF ~b /\ user # NoUser THEN 1 ELSE 0]
  /\ fetchServed' = {}
  /\ feePending' = [f \in FeeValues |-> 0]
  /\ UNCHANGED <<user, db, nextId, clock, exFin>>

reload ==
  /\ Op
  /\ Remount
  /\ UNCHANGED localData

\* clearData as useFinance() hands it out (FinanceProvider):
\*   localStorage.removeItem('finance_dashboard_data'); window.location.reload()
clearData ==
  /\ Op
  /\ localData' = <<>>
  /\ Remount

\* the crypto form is submitted for the holding being edited
handleSubmitCryptoEdit(id, form) == updateCrypto(id, CryptoEdit(form))

InitLocal ==
  /\ user = NoUser
  /\ data = getInitialData
  /\ localData \in LocalDocs
  /\ isLoaded = FALSE
  /\ db = SeededDb
  /\ nextId = FirstNewId
  /\ fetchSent = [b \in BOOLEAN |-> 0]
  /\ fetchServed = {}
  /\ feePending = [f \in FeeValues |-> 0]
  /\ clock = 0
  /\ opCount = 0
  /\ InitSettings
  /\ IdleAuth
  /\ IdleCache
  /\ IdleRefresh
  /\ IdleTool
  /\ IdleCalc

NextLocal ==
  \/ fetchDataLocal
  \/ reload
  \/ clearData
  \/ \E form \in CryptoForms : handleSubmitCryptoEdit(3, form)
  \/ \E price \in Prices : updateCrypto(3, [currentPrice |-> price, updatedAt |-> clock])
  \/ Tick

SpecLocal == InitLocal /\ [][NextLocal]_vars

----------------------------------------------------------------------------
\* the key holds the JSON serialisation of the data in memory
StoredIsJson == localData = <<Stringify(data)>>

\* C12: without a user and once the initial load has completed, the key
\* 'finance_dashboard_data' holds the JSON serialisation of the data in
\* memory, and loading it gives back exactly that data.
C12_LocalRoundTrip ==
  (user = NoUser /\ isLoaded) =>
    (StoredIsJson /\ Parse(localData[1]) = data)

\* the half of C12 that holds: the stored value follows every change
C12_StoredFollowsData == (user = NoUser /\ isLoaded) => StoredIsJson

(***************************************************************************)
(* CompoundInterestCalculator                                              *)
(***************************************************************************)
Principals == {0, 2001, 10000 * Unit}
Contributions == {0, 1, 100 * Unit, 500 * Unit}
Rates == {0, 7, 12}
Horizons == 0..MaxHorizon

setInitialPrincipal(v) ==
  /\ compound' = Compound(v, compound.monthlyContribution, compound.interestRate,
                          compound.years)
  /\ UNCHANGED <<fire, monte, exCalc>>

setMonthlyContribution(v) ==
  /\ compound' = Compound(compound.initialPrincipal, v, compound.interestRate,
                          compound.years)
  /\ UNCHANGED <<fire, monte, exCalc>>

setInterestRate(v) ==
  /\ compound' = Compound(compound.initialPrincipal, compound.monthlyContribution, v,
                          compound.years)
  /\ UNCHANGED <<fire, monte, exCalc>>

setYears(v) ==
  /\ compound' = Compound(compound.initialPrincipal, compound.monthlyContribution,
                          compound.interestRate, v)
  /\ UNCHANGED <<fire, monte, exCalc>>

InitCompound ==
  /\ IdleFin
  /\ InitSettings
  /\ IdleAuth
  /\ IdleCache
  /\ IdleRefresh
  /\ IdleTool
  /\ compound = Compound(10000 * Unit, 500 * Unit, 7, 20)
  /\ fire = Unmounted
  /\ monte = Unmounted

NextCompound ==
  \/ \E v \in Principals : setInitialPrincipal(v)
  \/ \E v \in Contributions : setMonthlyContribution(v)
  \/ \E v \in Rates : setInterestRate(v)
  \/ \E v \in Horizons : setYears(v)

SpecCompound == InitCompound /\ [][NextCompound]_vars

----------------------------------------------------------------------------
\* the data has one point for each of the years 0..N, in that order
YearlyPoints ==
  /\ Len(compound.data) = compound.years + 1
  /\ \A i \in 1..Len(compound.data) : compound.data[i].year = i - 1

\* n is the integer nearest to the amount v, the upper one of two
Nearest(n, v) == 2 * v - Unit < 2 * n * Unit /\ 2 * n * Unit <= 2 * v + Unit

\* C13 (as stated): for C = 0 and r = 0 the balance of every yearly point
\* equals the initial principal P0 and its interest is 0.
C13_BalanceIsPrincipal ==
  (compound.monthlyContribution = 0 /\ compound.interestRate = 0) =>
    /\ YearlyPoints
    /\ \A i \in 1..Len(compound.data) :
         /\ compound.data[i].balance * Unit = compound.initialPrincipal
         /\ compound.data[i].interest = 0

\* C13 (amended): for C = 0 and r = 0 the balance of every yearly point is
\* the initial principal rounded to the nearest integer, and its interest
\* is 0.
C13_BalanceIsRoundedPrincipal ==
  (compound.monthlyContribution = 0 /\ compound.interestRate = 0) =>
    /\ YearlyPoints
    /\ \A i \in 1..Len(compound.data) :
         /\ Nearest(compound.data[i].balance, compound.initialPrincipal)
         /\ compound.data[i].interest = 0

\* P0 = 1000.5 with C = 0 and r = 0 over two years: every balance is 1001
C13_Witness ==
  /\ compound.monthlyContribution = 0
  /\ compound.interestRate = 0
  /\ compound.initialPrincipal = 2001
  /\ compound.years = 2
  /\ compound.data[3].balance = 1001

\* P0 + 12 * k * C, in 1/Unit
ContributedBy(k) ==
  compound.initialPrincipal + 12 * k * compound.monthlyContribution

StockTypes == {"stock", "etf"}

\* what getStockPrice resolves to: 0 stands for null
FetchedPrices == {0, 2}

\* what the investment form holds when it is submitted
InvForms ==
  {f \in [symbol : {"BTP"}, type : {"stock", "bond"}, quantity : {0, 1, 2},
          avgBuyPrice : {4}, currentPrice : {0}, currency : {"EUR"},
          feeType : {"fixed", "percent"}, feeValue : {0, 2, 25}] :
     f.feeType = "percent" <=> f.feeValue = 25}

\* calculatedFees of handleSubmit
CalculatedFees(form) ==
  IF form.feeType = "fixed" THEN form.feeValue
  ELSE (form.quantity * form.avgBuyPrice * form.feeValue) \div 100

\* const trueCostBasis = (form.quantity * form.avgBuyPrice) + calculatedFees
TrueCostBasis(form) == form.quantity * form.avgBuyPrice + CalculatedFees(form)

\* pricePerShare of handleSubmit, the manual price being off
PricePerShare(form, fetched) ==
  IF form.type \in StockTypes THEN fetched
  ELSE IF form.currentPrice > 0 THEN form.currentPrice ELSE form.avgBuyPrice

\* the object handleSubmit hands to onAdd, and with updatedAt to onUpdate
SubmittedInvestment(form, fetched) ==
  [symbol |-> form.symbol, type |-> form.type, quantity |-> form.quantity,
   costBasis |-> TrueCostBasis(form),
   currentValue |-> form.quantity * PricePerShare(form, fetched),
   currency |-> form.currency, fees |-> CalculatedFees(form)]

\* InvestmentTable.handleEdit: the form opened on an investment
handleEdit(inv) ==
  [symbol |-> inv.symbol, type |-> inv.type, quantity |-> inv.quantity,
   avgBuyPrice |-> IF inv.quantity > 0
                   THEN (inv.costBasis - inv.fees) \div inv.quantity ELSE 0,
   currentPrice |-> 0, currency |-> inv.currency, feeType |-> "fixed",
   feeValue |-> inv.fees]

\* InvestmentTable.handleSubmit: editId is <<>> for a new investment; for a
\* stock or an ETF without a price it returns before it saves
handleSubmit(form, editId, fetched, ok) ==
  /\ form.type \in StockTypes => fetched # 0
  /\ IF editId # <<>>
     THEN updateInvestment(editId[1],
            [updatedAt |-> clock] @@ SubmittedInvestment(form, fetched))
     ELSE addInvestment(SubmittedInvestment(form, fetched), ok)

\* the edit form is opened on the i-th investment and saved as it is
SaveUnchanged(i, fetched) ==
  handleSubmit(handleEdit(data.investments[i]), <<data.investments[i].id>>,
               fetched, TRUE)

\* the edit form is opened on the i-th investment and saved with quantity q
SaveQuantity(i, q, fetched) ==
  handleSubmit([handleEdit(data.investments[i]) EXCEPT !.quantity = q],
               <<data.investments[i].id>>, fetched, TRUE)

InitInvest == InitFin

NextInvest ==
  \/ \E failed \in BOOLEAN : FetchServe(failed)
  \/ \E f \in fetchServed : FetchDeliver(f)
  \/ \E form \in InvForms, fetched \in FetchedPrices, ok \in BOOLEAN :
       handleSubmit(form, <<>>, fetched, ok)
  \/ \E f \in FeeValues, ok \in BOOLEAN : logFee(f, ok)
  \/ \E i \in 1..Len(data.investments), fetched \in FetchedPrices :
       SaveUnchanged(i, fetched)
  \/ \E i \in 1..Len(data.investments), q \in {1, 3}, fetched \in FetchedPrices :
       SaveQuantity(i, q, fetched)
  \/ clearData

SpecInvest == InitInvest /\ [][NextInvest]_vars

----------------------------------------------------------------------------
\* the investment that fetchData makes of the asset row added last
Reloaded == MapInvestment(db'.assets[Len(db'.assets)])

\* a new investment is saved and reloads with the cost basis q * p + f
AddKeepsCostBasis(form) ==
  \A fetched \in FetchedPrices :
    handleSubmit(form, <<>>, fetched, TRUE) =>
      /\ Reloaded.costBasis
           = form.quantity * form.avgBuyPrice + CalculatedFees(form)
      /\ Reloaded.fees = CalculatedFees(form)

\* saving the edit form as it was opened keeps cost basis and fees
EditKeepsCostBasis(i) ==
  \A fetched \in FetchedPrices :
    SaveUnchanged(i, fetched) =>
      /\ data'.investments[i].costBasis = data.investments[i].costBasis
      /\ data'.investments[i].fees = data.investments[i].fees

\* C18: an investment submitted with quantity q >= 0, price p and fee f is
\* saved with the cost basis q * p + f and reloads with that cost basis and
\* that fee, and saving its edit form without a change keeps both.
C18_CostBasisSurvives ==
  [][ /\ \A form \in InvForms : AddKeepsCostBasis(form)
      /\ \A i \in 1..Len(data.investments) : EditKeepsCostBasis(i) ]_vars

\* C18 for the quantities q > 0 only
C18_PositiveQuantity ==
  [][ /\ \A form \in InvForms : form.quantity > 0 => AddKeepsCostBasis(form)
      /\ \A i \in 1..Len(data.investments) :
           data.investments[i].quantity > 0 => EditKeepsCostBasis(i) ]_vars

\* C19: when a signed-in user confirms 'Delete All Data', the rows of the
\* five tables are deleted from the backend.
C19_DeleteAllData ==
  [][ (user # NoUser /\ clearData) => db' = EmptyDb ]_vars

\* 'Delete All Data' empties the browser's store and starts the hook over,
\* and the backend keeps every row
C19_RowsKept ==
  [][ (user # NoUser /\ clearData) =>
        /\ db' = db
        /\ localData' = <<>>
        /\ ~isLoaded'
        /\ fetchSent'[FALSE] = 1 ]_vars

\* C20: an update of an investment with a changed quantity saves the new
\* quantity to its row of the backend table assets.
C20_QuantitySaved ==
  [][ \A i \in 1..Len(data.investments), q \in {1, 3}, fetched \in FetchedPrices :
        (q # data.investments[i].quantity /\ SaveQuantity(i, q, fetched)) =>
          \E j \in 1..Len(db'.assets) :
            /\ db'.assets[j].id = data.investments[i].id
            /\ db'.assets[j].quantity = q ]_vars

\* every update of an investment, of its quantity as of its value, leaves
\* the backend as it was
C20_UpdateIsLocal ==
  [][ \A i \in 1..Len(data.investments), q \in {1, 3}, fetched \in FetchedPrices :
        (SaveQuantity(i, q, fetched) \/ SaveUnchanged(i, fetched)) =>
          /\ db' = db
          /\ fetchSent' = fetchSent ]_vars

(***************************************************************************)
(* MonteCarloSimulation                                                    *)
(***************************************************************************)
Portfolios == {0, 2001, 10000 * Unit}
MonteContributions == {0, 500 * Unit}
ExpectedReturns == {0, 8}
Volatilities == {0, 15}

\* a render after field was set to v: runSimulation draws anew
SetMonte(field, v) ==
  /\ \E table \in DrawTables : monte' = Monte([monte EXCEPT ![field] = v], table)
  /\ UNCHANGED <<compound, fire, exCalc>>

setInitialPortfolio(v) == SetMonte("initialPortfolio", v)

setMonteContribution(v) == SetMonte("monthlyContribution", v)

setExpectedReturn(v) == SetMonte("expectedReturn", v)

setVolatility(v) == SetMonte("volatility", v)

setMonteYears(v) == SetMonte("years", v)

\* the button 'Run New Simulation'
setSimulationCount ==
  SetMonte("simulationCount",
           IF monte.simulationCount = MaxSims THEN MaxSims + 1 ELSE MaxSims)

MonteDefaults ==
  [initialPortfolio |-> 10000 * Unit, monthlyContribution |-> 500 * Unit,
   expectedReturn |-> 8, volatility |-> 15, years |-> 20,
   simulationCount |-> MaxSims]

InitMonte ==
  /\ IdleFin
  /\ InitSettings
  /\ IdleAuth
  /\ IdleCache
  /\ IdleRefresh
  /\ IdleTool
  /\ compound = Unmounted
  /\ fire = Unmounted
  /\ \E table \in DrawTables : monte = Monte(MonteDefaults, table)

NextMonte ==
  \/ \E v \in Portfolios : setInitialPortfolio(v)
  \/ \E v \in MonteContributions : setMonteContribution(v)
  \/ \E v \in ExpectedReturns : setExpectedReturn(v)
  \/ \E v \in Volatilities : setVolatility(v)
  \/ \E v \in Horizons : setMonteYears(v)
  \/ setSimulationCount

SpecMonte == InitMonte /\ [][NextMonte]_vars

----------------------------------------------------------------------------
\* the balance of the path that has no random shock, the given number of
\* months later
RECURSIVE NoShockMonths(_, _)
NoShockMonths(months, balance) ==
  IF months = 0 THEN balance
  ELSE NoShockMonths(months - 1,
         MonthStep(balance, Exp(Drift(monte.expectedReturn, 0)),
                   monte.monthlyContribution))

\* the balances of the years 0..N of the path that has no random shock
RECURSIVE NoShockYears(_)
NoShockYears(w) ==
  IF Len(w) = monte.years + 1 THEN w
  ELSE NoShockYears(Append(w, NoShockMonths(12, w[Len(w)])))

NoShockBalance == NoShockYears(<<monte.initialPortfolio>>)

\* with no volatility all paths are the same and the percentiles coincide
SamePaths ==
  /\ Len(monte.simulations) = monte.simulationCount
  /\ \A i, j \in 1..Len(monte.simulations) :
       monte.simulations[i] = monte.simulations[j]
  /\ Len(monte.chartData) = monte.years + 1
  /\ \A k \in 1..Len(monte.chartData) :
       /\ monte.chartData[k].year = k - 1
       /\ monte.chartData[k].p10 = monte.chartData[k].p50
       /\ monte.chartData[k].p50 = monte.chartData[k].p90

Ages == {0, 23, 40}
NetWorths == {0, 50, 500}
Expenses == {0, 40}
WithdrawalRates == {25, 40}
Returns == {3, 7, 10}

SetFire(field, v) ==
  /\ fire' = Fire([fire EXCEPT ![field] = v])
  /\ UNCHANGED <<compound, monte, exCalc>>

setCurrentAge(v) == SetFire("currentAge", v)

setCurrentNetWorth(v) == SetFire("currentNetWorth", v)

setAnnualExpenses(v) == SetFire("annualExpenses", v)

setSwr(v) == SetFire("swr", v)

setNominalReturn(v) == SetFire("nominalReturn", v)

InitFire ==
  /\ IdleFin
  /\ InitSettings
  /\ IdleAuth
  /\ IdleCache
  /\ IdleRefresh
  /\ IdleTool
  /\ compound = Unmounted
  /\ \E age \in DefaultAges : fire = Fire(FireDefaults(age))
  /\ monte = Unmounted

NextFire ==
  \/ \E v \in Ages : setCurrentAge(v)
  \/ \E v \in NetWorths : setCurrentNetWorth(v)
  \/ \E v \in Expenses : setAnnualExpenses(v)
  \/ \E v \in WithdrawalRates : setSwr(v)
  \/ \E v \in Returns : setNominalReturn(v)

SpecFire == InitFire /\ [][NextFire]_vars

----------------------------------------------------------------------------
RECURSIVE NetWorthSeries(_)
NetWorthSeries(w) ==
  IF Len(w) = maxYears + 1 THEN w
  ELSE NetWorthSeries(Append(w, Grow(w[Len(w)], fire)))

\* the years of 0..60 in which the net worth is at least the target
Crossings ==
  LET w == NetWorthSeries(<<fire.currentNetWorth>>) IN
    {i \in 0..maxYears : AtLeast(w[i + 1], fire.fireNumber)}

\* C17: the reported time to FIRE is the first year of 0..60 in which the
\* net worth is at least the target, the reported age is currentAge plus
\* that year, '> 60' is reported exactly when there is no such year, and
\* the projection has 61 points.
C17_FirstCrossing ==
  /\ Len(fire.data) = maxYears + 1
  /\ (Crossings = {}) <=> (fire.yearsToFire = <<>>)
  /\ Crossings # {} =>
       LET first == CHOOSE i \in Crossings : \A j \in Crossings : i <= j IN
         /\ fire.yearsToFire = <<first>>
         /\ fire.reachFireAge = <<fire.currentAge + first>>

(***************************************************************************)
(* Properties of the fee transaction of addInvestment and addCrypto        *)
(***************************************************************************)
\* the transactions table has one more row, a 'Trading Fees' expense of f
FeeLogged(f) ==
  /\ Len(db'.transactions) = Len(db.transactions) + 1
  /\ SubSeq(db'.transactions, 1, Len(db.transactions)) = db.transactions
  /\ LET t == db'.transactions[Len(db'.transactions)]
     IN t.type = "expense" /\ t.category = "Trading Fees" /\ t.amount = f

\* the assets table has one more row, whose fees are f
AssetSaved(f) ==
  /\ Len(db'.assets) = Len(db.assets) + 1
  /\ db'.assets[Len(db'.assets)].fees = f

\* an asset with fees f was saved and its fee insert is still to come
FeeDue(f) == feePending'[f] = feePending[f] + 1

\* the fee insert of an asset saved with fees f has returned
FeeDone(f) == feePending'[f] = feePending[f] - 1

\* the fee transaction is inserted only after the asset row was inserted,
\* and an asset saved without fees or not saved at all brings none
FeeOnlyAfterAsset ==
  /\ \A f \in FeeValues :
       /\ FeeDue(f) => AssetSaved(f) /\ db'.transactions = db.transactions
       /\ FeeLogged(f) => FeeDone(f)
  /\ (\/ \E e \in InvEntries, ok \in BOOLEAN :
           addInvestment(e, ok) /\ (~ok \/ e.fees = 0)
      \/ \E e \in CryptoEntries, ok \in BOOLEAN :
           addCrypto(e, ok) /\ (~ok \/ e.fees = 0))
       => db'.transactions = db.transactions /\ feePending' = feePending

\* C21: an asset saved with fees > 0 has exactly one 'Trading Fees'
\* expense of that amount in the backend once its add has run, inserted
\* after the asset row; with no fees or a failed asset insert there is none.
C21_FeeTransaction ==
  [][ /\ FeeOnlyAfterAsset
      /\ \A f \in FeeValues : FeeDone(f) => FeeLogged(f) ]_vars

\* C21 without the promise that the fee insert succeeds
C21_FeeOnlyAfterAsset == [][FeeOnlyAfterAsset]_vars

(***************************************************************************)
(* Properties of the cash balance                                          *)
(***************************************************************************)
\* income minus expenses over the transactions, each amount converted as EUR
CashFlow(d, fn) ==
  SumSeq(MapSeq(d.transactions,
                LAMBDA t : IF t.type = "income" THEN ApplyConvFn(fn, t.amount, "EUR")
                           ELSE IF t.type = "expense"
                                THEN 0 - ApplyConvFn(fn, t.amount, "EUR")
                                ELSE 0))

\* the figures of the dashboard that the liquidity accounts could move
CashFigures(d, fn) ==
  LET t == calculateTotals(d, fn)
  IN <<t.totalLiquidity, t.totalAssets, t.netWorth>>

\* a step of addLiquidity, updateLiquidity or deleteLiquidity
LiquidityWrite ==
  \/ \E e \in LiquidityEntries, ok \in BOOLEAN : addLiquidity(e, ok)
  \/ \E id \in Ids(data.liquidity), u \in LiquidityUpdates, ok \in BOOLEAN :
       updateLiquidity(id, u, ok)
  \/ \E id \in Ids(data.liquidity), ok \in BOOLEAN : deleteLiquidity(id, ok)

C23_UserAllowlisted == user # NoUser => user = Owner

\* C23 for the subscriber alone: a user with another email is only ever set
\* by the callback of getSession()
C23_SubscriberAllowlisted ==
  [][(user' # user /\ user' \notin {NoUser, Owner})
       => getSessionPending /\ ~getSessionPending' /\ user' = stored]_vars

(***************************************************************************)
(* Properties of the rate table used by convertCurrency                    *)
(***************************************************************************)
\* the conversion divided by a rate taken from the table
UsedRates(c) == ~SameCurrency(c) /\ c.rate # 0

\* C24: a rate that convertCurrency takes from the table is the rate of the
\* table fetched for the base currency selected at the time of the call,
\* also after a failed rate request and after responses out of order.
C24_RatesOfSelectedBase ==
  Converted /\ UsedRates(conv[1])
    => conv[1].rate = RatesFor(conv[1].currency)[conv[1].sourceCurrency]

\* C24 once the rate requests have all been answered
C24_RatesOfSelectedBaseAtRest ==
  (Converted /\ UsedRates(conv[1]) /\ RatesCount = 0 /\ conv[1].currency = currency
     /\ conv[1].rate = RateOf(currencyRates, conv[1].sourceCurrency))
    => conv[1].rate = RatesFor(currency)[conv[1].sourceCurrency]

(***************************************************************************)
(* Properties of the cached prices across a refetch                        *)
(***************************************************************************)
\* every holding that is kept has the currentPrice / currentValue it had
PricesKept ==
  /\ \A i \in 1..Len(data.crypto), j \in 1..Len(data'.crypto) :
       data.crypto[i].id = data'.crypto[j].id
         => data'.crypto[j].currentPrice = data.crypto[i].currentPrice
  /\ \A i \in 1..Len(data.investments), j \in 1..Len(data'.investments) :
       data.investments[i].id = data'.investments[j].id
         => data'.investments[j].currentValue = data.investments[i].currentValue

\* the response of a fetchData is applied
Refetch == \E f \in fetchServed : FetchDeliver(f)

\* a price is written into a holding
PriceUpdate ==
  \/ \E i \in 1..Len(data.investments), p \in FinPrices :
       updateInvestment(data.investments[i].id,
                        [currentValue |-> p * data.investments[i].quantity,
                         updatedAt |-> clock])
  \/ \E id \in Ids(data.crypto), p \in FinPrices :
       updateCrypto(id, [currentPrice |-> p, updatedAt |-> clock])

\* C25: the refetch that follows a write leaves the cached price of every
\* holding that existed before as it was, so that totalCrypto,
\* totalInvestments and netWorth do not change because of the refetch.
C25_RefetchKeepsPrices ==
  [][Refetch =>
       /\ PricesKept
       /\ RowIds(data') = RowIds(data) =>
            \A fn \in ConvFns :
              LET t == calculateTotals(data, fn)
                  u == calculateTotals(data', fn)
              IN /\ u.totalCrypto = t.totalCrypto
                 /\ u.totalInvestments = t.totalInvestments]_vars

\* C25 for the write alone: cached prices only change in a price update
\* and when the response of a fetchData is applied
C25_WriteKeepsPrices == [][~PricesKept => Refetch \/ PriceUpdate]_vars

(***************************************************************************)
(* Price refreshes in flight while holdings are edited and deleted         *)
(***************************************************************************)
InitInFlight == InitRefresh

NextInFlight ==
  \/ handleGlobalRefresh
  \/ handleUpdateAll
  \/ \E k \in Kinds, id \in HoldingIds, price \in Quotes : priceResolve(k, id, price)
  \/ \E call \in BagToSet(batchCalls), st \in Statuses :
       refreshBatchResponse(call, st, MarketData)
  \/ \E i \in 1..Len(data.investments), fetched \in FetchedPrices :
       SaveQuantity(i, 3, fetched)
  \/ \E id \in Ids(data.investments) : deleteInvestment(id, TRUE)
  \/ \E id \in Ids(data.crypto) : deleteCrypto(id, TRUE)
  \/ FetchServe(FALSE)
  \/ \E f \in fetchServed : FetchDeliver(f)

SpecInFlight == InitInFlight /\ [][NextInFlight]_vars

----------------------------------------------------------------------------
\* the holdings a refresh has called updateCrypto / updateInvestment for
Applied == {id \in HoldingIds : lastUpdate'[id] # lastUpdate[id]}

\* C26: when a price refresh applies a fetched price to an investment, the
\* investment's currentValue becomes that price times the quantity stored
\* for it at that time, also when the quantity was edited while the price
\* requests were in flight.
C26_ValueOfCurrentQuantity ==
  [][\A id \in Applied :
       lastUpdate'[id][1].fn = "updateInvestment" =>
         \A i \in 1..Len(data'.investments) :
           data'.investments[i].id = id =>
             data'.investments[i].currentValue
               = refresh'[lastUpdate'[id][1].by].results[id]
                   * data'.investments[i].quantity]_vars

\* C26 with the quantity the handler read when the refresh started
C26_ValueOfClosureQuantity ==
  [][\A id \in Applied :
       lastUpdate'[id][1].fn = "updateInvestment" =>
         \A i \in 1..Len(data'.investments) :
           data'.investments[i].id = id =>
             \E c \in Range(refresh'[lastUpdate'[id][1].by].stocks) :
               /\ c.id = id
               /\ data'.investments[i].currentValue
                    = refresh'[lastUpdate'[id][1].by].results[id] * c.quantity]_vars

\* a step in which updateCrypto or updateInvestment is called
UpdateCalls ==
  \/ Applied # {}
  \/ \E i \in 1..Len(data.investments), fetched \in FetchedPrices :
       SaveQuantity(i, 3, fetched)

\* the holdings the calls of the step are for
Targets ==
  Applied \cup {data.investments[i].id : i \in {j \in 1..Len(data.investments) :
                   \E fetched \in FetchedPrices : SaveQuantity(j, 3, fetched)}}

\* the rows of a collection other than those of the updated holdings
Others(s) == SelectSeq(s, LAMBDA h : h.id \notin Targets)

\* C27: updateCrypto and updateInvestment never change the set of holding
\* ids: an update for a holding that was deleted and refetched away while the
\* refresh was in flight does nothing, and an update for an existing id
\* changes only that holding.
C27_UpdateKeepsIds ==
  [][UpdateCalls =>
       /\ MapSeq(data'.crypto, LAMBDA h : h.id) = MapSeq(data.crypto, LAMBDA h : h.id)
       /\ MapSeq(data'.investments, LAMBDA h : h.id)
            = MapSeq(data.investments, LAMBDA h : h.id)
       /\ Others(data'.crypto) = Others(data.crypto)
       /\ Others(data'.investments) = Others(data.investments)
       /\ Targets \cap (Ids(data.crypto) \cup Ids(data.investments)) = {}
            => data' = data]_vars

\* the dashboard refresh has applied its prices after the crypto holding
\* of its closure was deleted and refetched away
C27_Witness ==
  /\ refresh["handleGlobalRefresh"].run = 1
  /\ ~refresh["handleGlobalRefresh"].active
  /\ lastUpdate[3] # <<>>
  /\ lastUpdate[3][1].by = "handleGlobalRefresh"
  /\ 3 \notin Ids(data.crypto)
  /\ lastUpdate[2] # <<>>
  /\ lastUpdate[2][1].by = "handleGlobalRefresh"
  /\ \E i \in Range(data.investments) : i.id = 2 /\ i.currentValue # 0

====
